---------------------------- MODULE Spec2Model ----------------------------
(***************************************************************************)
(* Batch ETL migration engine of the migration toolkit                     *)
(* (views/migration_engine.py, services/transformers.py).                  *)
(*                                                                         *)
(* The engine is a Streamlit page: every operator interaction re-executes  *)
(* the page script from the top against st.session_state.  The model has   *)
(* one action per interaction (the whole script run it causes at steps     *)
(* 1..3) and, for step 4, one action per stage of the execution script,    *)
(* so that a run can be observed, fail, or be cut short between stages.    *)
(***************************************************************************)
EXTENDS Integers, Sequences, FiniteSets, Bags, TLC

(* ------------------------------ bounds -------------------------------- *)

\* Largest number of rows of the source table.
MaxRows == 3

\* Largest number of executions of the migration (runs that pass the guard
\* of step 4) in one behaviour.
MaxRuns == 2

\* The values offered by the batch-size input, scaled down from 1000/500/100.
BatchSizes == {1, 2}

\* The value the batch-size input shows when step 3 is entered (value=1000,
\* above the minimum of 100): here the larger of the sizes offered.
DefaultBatchSize == CHOOSE b \in BatchSizes : \A c \in BatchSizes : c <= b

(* ------------------------- values and transformers -------------------- *)

\* The raw text of source row r: padded with blanks, as legacy data is.
RowChar == <<"a", "b", "c", "d", "e", "f", "g", "h", "i">>

RawValue(r) == <<" ", RowChar[r], " ">>

IsSpace(c) == c = " "

RECURSIVE LStrip(_)
LStrip(s) == IF s # <<>> /\ IsSpace(Head(s)) THEN LStrip(Tail(s)) ELSE s

RECURSIVE RStrip(_)
RStrip(s) ==
    IF s # <<>> /\ IsSpace(s[Len(s)]) THEN RStrip(SubSeq(s, 1, Len(s) - 1)) ELSE s

\* str.strip()
Strip(s) == RStrip(LStrip(s))

UpperChar(c) ==
    CASE c = "a" -> "A" [] c = "b" -> "B" [] c = "c" -> "C" [] c = "d" -> "D"
      [] c = "e" -> "E" [] c = "f" -> "F" [] c = "g" -> "G" [] c = "h" -> "H"
      [] c = "i" -> "I" [] OTHER -> c

LowerChar(c) ==
    CASE c = "A" -> "a" [] c = "B" -> "b" [] c = "C" -> "c" [] c = "D" -> "d"
      [] c = "E" -> "e" [] c = "F" -> "f" [] c = "G" -> "g" [] c = "H" -> "h"
      [] c = "I" -> "i" [] OTHER -> c

Upper(s) == [i \in DOMAIN s |-> UpperChar(s[i])]

Lower(s) == [i \in DOMAIN s |-> LowerChar(s[i])]

\* The transformer names the mapping editor offers (config.TRANSFORMER_OPTIONS).
TRANSFORMER_OPTIONS ==
    {"TRIM", "UPPER_TRIM", "LOWER_TRIM", "BUDDHIST_TO_ISO", "ENG_DATE_TO_ISO",
     "SPLIT_THAI_NAME", "SPLIT_ENG_NAME", "FORMAT_PHONE", "MAP_GENDER",
     "TO_NUMBER", "CLEAN_SPACES", "REMOVE_PREFIX", "REPLACE_EMPTY_WITH_NULL",
     "LOOKUP_VISIT_ID", "LOOKUP_PATIENT_ID", "LOOKUP_DOCTOR_ID",
     "FLOAT_TO_INT", "PARSE_JSON", "POSTGRES_BIT_CAST"}

\* The names DataTransformer.transform_series has a branch for.
RegisteredTransformers ==
    {"TRIM", "UPPER_TRIM", "LOWER_TRIM", "CLEAN_SPACES", "TO_NUMBER",
     "REPLACE_EMPTY_WITH_NULL", "GENERATE_HN", "REMOVE_PREFIX",
     "BUDDHIST_TO_ISO", "ENG_DATE_TO_ISO", "MAP_GENDER", "FORMAT_PHONE",
     "EXTRACT_FIRST_NAME", "EXTRACT_LAST_NAME"}

\* DataTransformer.transform_series on one cell of the series, for the
\* transformers the modelled configurations use.  A name without a branch
\* falls through to the final "return series".
transform_series(v, transformer_name) ==
    CASE transformer_name = "TRIM" -> Strip(v)
      [] transformer_name = "UPPER_TRIM" -> Upper(Strip(v))
      [] transformer_name = "LOWER_TRIM" -> Lower(Strip(v))
      [] OTHER -> v

\* The loop over a mapping's transformers in apply_transformers_to_batch.
RECURSIVE ApplyChain(_, _)
ApplyChain(v, transformers) ==
    IF transformers = <<>> THEN v
    ELSE ApplyChain(transform_series(v, Head(transformers)), Tail(transformers))

\* The mapping configurations a session can load: one field mapping each,
\* with a registered transformer, or with one the editor offers but
\* transform_series has no branch for.
Configs ==
    { [config_name |-> "patients",
       mappings |-> <<[source |-> "NAME", target |-> "name",
                       transformers |-> <<t>>, ignore |-> FALSE]>>]
      : t \in {"UPPER_TRIM", "SPLIT_THAI_NAME"} }

\* True when every transformer the configuration names has a branch.
KnownTransformers(cfg) ==
    \A i \in DOMAIN cfg.mappings :
        \A j \in DOMAIN cfg.mappings[i].transformers :
            cfg.mappings[i].transformers[j] \in RegisteredTransformers

(* ------------------------------ batches ------------------------------- *)

Min(a, b) == IF a <= b THEN a ELSE b

\* Number of chunks pd.read_sql(chunksize=bs) yields over n rows.
NumBatches(n, bs) == (n + bs - 1) \div bs

\* The source rows of chunk k, in cursor order.
BatchRows(k, bs, n) == ((k - 1) * bs + 1) .. Min(k * bs, n)

\* Rows fetched from the cursor up to and including chunk k.
CumulativeRows(k, bs, n) == Min(k * bs, n)

(* ----------------------------- data frames ---------------------------- *)
(* One row of a pandas DataFrame: the columns in order, each a label and the
   row's cell.  Every operation below acts on all rows alike. *)

\* The columns of the source table, in table order.
SourceTableColumns == <<"NAME", "sex">>

\* The cell of source row r in a column of the source table.
CellValue(col, r) == IF col = "NAME" THEN RawValue(r) ELSE <<" ", "f", " ">>

\* str.lower() on the column labels that occur.
str_lower(label) ==
    CASE label = "NAME" -> "name"
      [] label = "Name" -> "name"
      [] OTHER -> label

ColumnLabels(df) == {df[i].name : i \in DOMAIN df}

\* df[label] for a label of the frame.
Column(df, label) ==
    df[CHOOSE i \in DOMAIN df :
          df[i].name = label /\ \A j \in 1..(i - 1) : df[j].name # label].val

\* "df[label] = series": in place for a label of the frame, a new last
\* column otherwise.
SetColumn(df, label, val) ==
    IF label \in ColumnLabels(df)
    THEN [i \in DOMAIN df |->
             IF df[i].name = label THEN [name |-> label, val |-> val] ELSE df[i]]
    ELSE Append(df, [name |-> label, val |-> val])

\* 'GENERATE_HN' in mapping.get('transformers', [])
HasGenerateHN(m) ==
    \E k \in DOMAIN m.transformers : m.transformers[k] = "GENERATE_HN"

\* selected_cols: the sources of the mappings that are neither ignored nor
\* self-generating, in mapping order.
RECURSIVE SelectedCols(_, _)
SelectedCols(mappings, i) ==
    IF i > Len(mappings) THEN <<>>
    ELSE (IF mappings[i].ignore \/ HasGenerateHN(mappings[i])
          THEN <<>> ELSE <<mappings[i].source>>)
         \o SelectedCols(mappings, i + 1)

\* The projection "*".
Star == <<"*">>

\* The mappings that are not ignored.
NotIgnored(mappings) == {i \in DOMAIN mappings : ~mappings[i].ignore}

\* first_col: the source of the first mapping that is not ignored.
FirstCol(mappings) ==
    mappings[CHOOSE i \in NotIgnored(mappings) :
                \A j \in NotIgnored(mappings) : i <= j].source

\* The projection of the query generate_select_query returns.
generate_select_query(cfg) ==
    IF "mappings" \notin DOMAIN cfg THEN Star
    ELSE IF SelectedCols(cfg.mappings, 1) # <<>>
    THEN SelectedCols(cfg.mappings, 1)
    ELSE IF \E i \in NotIgnored(cfg.mappings) : HasGenerateHN(cfg.mappings[i])
    THEN <<FirstCol(cfg.mappings)>>
    ELSE Star

\* The columns a projection yields on the source table.
ProjectedColumns(projection) ==
    IF projection = Star THEN SourceTableColumns ELSE projection

\* One row of the chunk pd.read_sql yields for the query.
read_sql(cfg, r) ==
    [i \in DOMAIN ProjectedColumns(generate_select_query(cfg)) |->
        [name |-> ProjectedColumns(generate_select_query(cfg))[i],
         val |-> CellValue(ProjectedColumns(generate_select_query(cfg))[i], r)]]

\* The loop over a mapping's transformers with its try/except: a step that
\* raises leaves series_data as it was.
RECURSIVE ChainFrom(_, _, _, _)
ChainFrom(v, transformers, k, raising) ==
    IF k > Len(transformers) THEN v
    ELSE ChainFrom(IF k \in raising THEN v
                   ELSE transform_series(v, transformers[k]),
                   transformers, k + 1, raising)

\* apply_transformers_to_batch from mapping i on; available is the set of
\* labels the frame had on entry, raising the (mapping, step) pairs whose
\* transform_series call raises.
RECURSIVE ApplyMappings(_, _, _, _, _)
ApplyMappings(df, mappings, i, available, raising) ==
    IF i > Len(mappings) THEN df
    ELSE LET m == mappings[i]
             series_data ==
                 ChainFrom(Column(df, m.source), m.transformers, 1,
                           {k \in DOMAIN m.transformers : <<i, k>> \in raising})
         IN  ApplyMappings(
                 IF m.source \notin available \/ m.transformers = <<>>
                 THEN df
                 ELSE SetColumn(df, m.target, series_data),
                 mappings, i + 1, available, raising)

apply_transformers_to_batch(df, cfg, raising) ==
    IF df = <<>> \/ cfg.mappings = <<>> THEN df
    ELSE ApplyMappings(df, cfg.mappings, 1, ColumnLabels(df), raising)

\* rename_map of transform_batch applied to one label (a later mapping of
\* the same source wins, as in a dict).
RenamedLabel(label, mappings, labels) ==
    LET hits == {i \in DOMAIN mappings :
                    /\ ~mappings[i].ignore
                    /\ mappings[i].source = label
                    /\ mappings[i].source \in labels}
    IN  IF hits = {} THEN label
        ELSE mappings[CHOOSE i \in hits : \A j \in hits : j <= i].target

\* df.rename(columns=rename_map)
Rename(df, mappings) ==
    [i \in DOMAIN df |->
        [name |-> RenamedLabel(df[i].name, mappings, ColumnLabels(df)),
         val |-> df[i].val]]

\* "ignored_cols": the targets of the ignored mappings.
IgnoredCols(mappings) ==
    {mappings[i].target : i \in {j \in DOMAIN mappings : mappings[j].ignore}}

\* df.drop(columns=...)
RECURSIVE Drop(_, _)
Drop(df, labels) ==
    IF df = <<>> THEN <<>>
    ELSE (IF Head(df).name \in labels THEN <<>> ELSE <<Head(df)>>)
         \o Drop(Tail(df), labels)

\* df.columns = df.columns.str.lower()
LowerColumns(df) ==
    [i \in DOMAIN df |-> [name |-> str_lower(df[i].name), val |-> df[i].val]]

\* df.loc[:, ~df.columns.duplicated(keep='first')]
RECURSIVE DropDuplicated(_, _)
DropDuplicated(df, seen) ==
    IF df = <<>> THEN <<>>
    ELSE (IF Head(df).name \in seen THEN <<>> ELSE <<Head(df)>>)
         \o DropDuplicated(Tail(df), seen \cup {Head(df).name})

\* transform_batch on one row of the chunk (no mapping uses BIT_CAST here).
TransformFrame(df, cfg, raising) ==
    DropDuplicated(
        LowerColumns(
            Drop(Rename(apply_transformers_to_batch(df, cfg, raising),
                        cfg.mappings),
                 IgnoredCols(cfg.mappings))),
        {})

\* transform_batch: the rows of the chunk as they are handed to the insert.
transform_batch(rows, cfg) ==
    { [id |-> r, val |-> TransformFrame(read_sql(cfg, r), cfg, {})]
      : r \in rows }

(* --------------------------- checkpoint store ------------------------- *)

NoCheckpoint == [exists |-> FALSE]

\* The content save_checkpoint writes to the configuration's file.
CheckpointData(batch, rows) ==
    [exists |-> TRUE, last_batch |-> batch, rows_processed |-> rows]

(* -------------------------------- state ------------------------------- *)

VARIABLES
    \* the world outside the session
    source_rows,            \* number of rows of the source table (a fixed snapshot)
    config,                 \* the stored mapping configuration
    target,                 \* the target table: a bag of [id, val] rows
    checkpoint,             \* the configuration's checkpoint file
    \* st.session_state
    migration_step,
    migration_config,
    migration_src_ok,
    migration_tgt_ok,
    migration_test_sample,
    truncate_target,
    migration_running,
    migration_completed,
    resume_from_checkpoint,
    checkpoint_batch,
    batch_size,
    truncate_disabled,      \* how the last render of step 3 drew the truncate checkbox
    \* the step-4 script run in progress
    pc,                     \* the stage the script is at ("idle": no script runs)
    pressed,                \* the control whose click caused this script run
    status,                 \* what the page shows
    skip_batches,
    batch_num,
    total_rows_processed,
    migration_failed,
    \* observation of the behaviour (never read by an action's guard or effect
    \* on the other variables, except runs, which bounds the model)
    runs,                   \* executions started so far
    trigger,                \* what started the current execution
    writes,                 \* save_checkpoint calls of the current execution
    attempted,              \* chunks the current execution handed to transform_batch
    inserted,               \* chunks the current execution inserted
    cleaned,                \* the current execution cleared the target in pre-flight
    preflight_sql,          \* the statements its pre-flight sent to the target
    lineage                 \* how the target came to its content (see Lineage)

world == <<source_rows, config, target, checkpoint>>

session ==
    <<migration_step, migration_config, migration_src_ok, migration_tgt_ok,
      migration_test_sample, truncate_target, migration_running,
      migration_completed, resume_from_checkpoint, checkpoint_batch,
      batch_size, truncate_disabled>>

script ==
    <<pc, pressed, status, skip_batches, batch_num, total_rows_processed,
      migration_failed>>

hist ==
    <<runs, trigger, writes, attempted, inserted, cleaned, preflight_sql,
      lineage>>

\* Everything the migration engine page works on.
engine == <<world, session, script, hist>>

(* State of the parts the engine calls into; each part is exercised by a
   specification of its own, and the engine specification leaves them at
   rest. *)
VARIABLES
    \* the checkpoint directory
    checkpoint_files,       \* file name -> content (NoCheckpoint: no such file)
    last_op                 \* the last checkpoint call and what load gave before it

ckstore == <<checkpoint_files, last_op>>

VARIABLES
    \* DataTransformer, shared by every session of the process
    hn_counter,             \* DataTransformer._hn_counter
    hn_start,               \* the value the counter was last reset to
    hn_batches,             \* row counts of the GENERATE_HN calls since the reset
    hn_issued,              \* identifiers returned since the reset, in row order
    hn_thread               \* per session thread: where it is inside the call

generator == <<hn_counter, hn_start, hn_batches, hn_issued, hn_thread>>

VARIABLES
    \* DatabaseConnectionPool and the servers behind it
    connections,            \* DatabaseConnectionPool._connections: key -> connection
    created,                \* connections opened so far
    alive,                  \* the connections that still answer "SELECT 1"
    last_get                \* the last get_connection call and what it met

connpool == <<connections, created, alive, last_get>>

\* One call of transform_batch on a chunk: the configuration, the steps whose
\* transformer raises, the chunk read and the frame handed to the insert.
VARIABLES tb_config, tb_raising, tb_chunk, tb_out, tb_pc
frames == <<tb_config, tb_raising, tb_chunk, tb_out, tb_pc>>

\* The CONNECTING step of one execution: the two datasource profiles (or
\* NoProfile), the charset in the session, the engines obtained.
VARIABLES cn_src, cn_tgt, cn_charset, cn_src_engine, cn_tgt_engine, cn_pc
connecting == <<cn_src, cn_tgt, cn_charset, cn_src_engine, cn_tgt_engine, cn_pc>>

\* One use of the THAI_ID validator: the value, the value it was derived
\* from, the position changed, and the two answers.
VARIABLES tid, tid_orig, tid_pos, tid_ok, tid_orig_ok, tid_pc
validator == <<tid, tid_orig, tid_pos, tid_ok, tid_orig_ok, tid_pc>>

\* One schema pre-check: what the inspection meets, and what it leaves.
VARIABLES sc_in, sc_log, sc_warnings, sc_pc
schemacheck == <<sc_in, sc_log, sc_warnings, sc_pc>>

\* One call of generate_select_query and the query's execution: the
\* configuration, the projection returned, how far the execution got.
VARIABLES sq_config, sq_query, sq_pc
selectquery == <<sq_config, sq_query, sq_pc>>

\* A migration whose configuration has a GENERATE_HN mapping, run and
\* resumed in processes that come and go: the rows in the target with their
\* identifiers, the checkpoint, and the locals of the execution.
VARIABLES hr_target, hr_checkpoint, hr_run, hr_skip, hr_batch_num, hr_ids, hr_pc
hnresume ==
    <<hr_target, hr_checkpoint, hr_run, hr_skip, hr_batch_num, hr_ids, hr_pc>>

\* Steps 1 to 4 of the wizard as far as the datasource profiles go: the step,
\* the profiles selected (migration_src_profile, migration_tgt_profile), the
\* connected flags, the last connection test of each side, and the profiles
\* an execution looked up.
VARIABLES wz_step, wz_src_profile, wz_tgt_profile, wz_src_ok, wz_tgt_ok,
          wz_src_tested, wz_tgt_tested, wz_run
wizard ==
    <<wz_step, wz_src_profile, wz_tgt_profile, wz_src_ok, wz_tgt_ok,
      wz_src_tested, wz_tgt_tested, wz_run>>

lib == <<ckstore, generator, connpool, frames, connecting, validator,
        schemacheck,
        selectquery,
        hnresume,
        wizard>>

vars == <<engine, lib>>

NoConfig == [config_name |-> "", mappings |-> <<>>]

\* The stages of the execution script (step 4) after its guards.
RunPcs ==
    {"connect", "preflight", "schema", "fetch", "transform", "insert", "save",
     "finish", "footer"}

\* The session defaults of render_migration_engine_page.
SessionInit ==
    /\ migration_step = 1
    /\ migration_config = NoConfig
    /\ migration_src_ok = FALSE
    /\ migration_tgt_ok = FALSE
    /\ migration_test_sample = FALSE
    /\ truncate_target = FALSE
    /\ migration_running = FALSE
    /\ migration_completed = FALSE
    /\ resume_from_checkpoint = FALSE
    /\ checkpoint_batch = 0
    /\ batch_size = DefaultBatchSize
    /\ truncate_disabled = FALSE

EngineInit ==
    /\ source_rows \in 1..MaxRows
    /\ config \in Configs
    /\ target = EmptyBag
    /\ checkpoint = NoCheckpoint
    /\ SessionInit
    /\ pc = "idle"
    /\ pressed = "none"
    /\ status = "none"
    /\ skip_batches = 0
    /\ batch_num = 0
    /\ total_rows_processed = 0
    /\ migration_failed = FALSE
    /\ runs = 0
    /\ trigger = "none"
    /\ writes = <<>>
    /\ attempted = {}
    /\ inserted = {}
    /\ cleaned = FALSE
    /\ preflight_sql = <<>>
    /\ lineage = [kind |-> "none", bs |-> 0]

(* --------------------- steps 1 and 2 of the wizard --------------------- *)

\* The model follows the wizard only while another execution can still be
\* started (MaxRuns bounds the behaviours).
WithinBudget == runs < MaxRuns

\* Step 1, "Proceed to Connection Test".
ProceedToConnectionTest ==
    /\ WithinBudget
    /\ pc = "idle"
    /\ migration_step = 1
    /\ migration_config' = config
    /\ migration_step' = 2
    /\ UNCHANGED <<world, migration_src_ok, migration_tgt_ok,
                   migration_test_sample, truncate_target, migration_running,
                   migration_completed, resume_from_checkpoint,
                   checkpoint_batch, batch_size, truncate_disabled, script, hist>>
    /\ UNCHANGED lib

\* Step 2, "Test Source": the flag is set on success and never cleared.
TestSource ==
    /\ WithinBudget
    /\ pc = "idle"
    /\ migration_step = 2
    /\ \E ok \in BOOLEAN :
          migration_src_ok' = IF ok THEN TRUE ELSE migration_src_ok
    /\ UNCHANGED <<world, migration_step, migration_config, migration_tgt_ok,
                   migration_test_sample, truncate_target, migration_running,
                   migration_completed, resume_from_checkpoint,
                   checkpoint_batch, batch_size, truncate_disabled, script, hist>>
    /\ UNCHANGED lib

\* Step 2, "Test Target".
TestTarget ==
    /\ WithinBudget
    /\ pc = "idle"
    /\ migration_step = 2
    /\ \E ok \in BOOLEAN :
          migration_tgt_ok' = IF ok THEN TRUE ELSE migration_tgt_ok
    /\ UNCHANGED <<world, migration_step, migration_config, migration_src_ok,
                   migration_test_sample, truncate_target, migration_running,
                   migration_completed, resume_from_checkpoint,
                   checkpoint_batch, batch_size, truncate_disabled, script, hist>>
    /\ UNCHANGED lib

\* Step 2, "Back".
BackToStep1 ==
    /\ WithinBudget
    /\ pc = "idle"
    /\ migration_step = 2
    /\ migration_step' = 1
    /\ UNCHANGED <<world, migration_config, migration_src_ok, migration_tgt_ok,
                   migration_test_sample, truncate_target, migration_running,
                   migration_completed, resume_from_checkpoint,
                   checkpoint_batch, batch_size, truncate_disabled, script, hist>>
    /\ UNCHANGED lib

\* How a render of step 3 draws the truncate checkbox: disabled when a
\* checkpoint exists and resume was ticked before this render.
TruncateDisabled(ck, resume) == ck.exists /\ resume

\* Step 2, "Next: Review & Execute", and the first render of step 3 (the
\* batch-size input is a new widget and shows its default).
NextReviewExecute ==
    /\ WithinBudget
    /\ pc = "idle"
    /\ migration_step = 2
    /\ migration_src_ok /\ migration_tgt_ok
    /\ migration_step' = 3
    /\ batch_size' = DefaultBatchSize
    /\ truncate_disabled' = TruncateDisabled(checkpoint, resume_from_checkpoint)
    /\ UNCHANGED <<world, migration_config, migration_src_ok, migration_tgt_ok,
                   migration_test_sample, truncate_target, migration_running,
                   migration_completed, resume_from_checkpoint,
                   checkpoint_batch, script, hist>>
    /\ UNCHANGED lib

(* ------------------------ step 3: review & settings -------------------- *)

\* The operator enters another batch size.
SetBatchSize ==
    /\ WithinBudget
    /\ pc = "idle"
    /\ migration_step = 3
    /\ \E b \in BatchSizes \ {batch_size} : batch_size' = b
    /\ truncate_disabled' = TruncateDisabled(checkpoint, resume_from_checkpoint)
    /\ UNCHANGED <<world, migration_step, migration_config, migration_src_ok,
                   migration_tgt_ok, migration_test_sample, truncate_target,
                   migration_running, migration_completed,
                   resume_from_checkpoint, checkpoint_batch, script, hist>>
    /\ UNCHANGED lib

\* The operator ticks or unticks "Truncate Target Table" (possible only
\* while the checkbox is drawn enabled).
ToggleTruncate ==
    /\ WithinBudget
    /\ pc = "idle"
    /\ migration_step = 3
    /\ ~truncate_disabled
    /\ truncate_target' = ~truncate_target
    /\ truncate_disabled' = TruncateDisabled(checkpoint, resume_from_checkpoint)
    /\ UNCHANGED <<world, migration_step, migration_config, migration_src_ok,
                   migration_tgt_ok, migration_test_sample, migration_running,
                   migration_completed, resume_from_checkpoint,
                   checkpoint_batch, batch_size, script, hist>>
    /\ UNCHANGED lib

\* The operator ticks or unticks "Test Mode".
ToggleTestMode ==
    /\ WithinBudget
    /\ pc = "idle"
    /\ migration_step = 3
    /\ migration_test_sample' = ~migration_test_sample
    /\ truncate_disabled' = TruncateDisabled(checkpoint, resume_from_checkpoint)
    /\ UNCHANGED <<world, migration_step, migration_config, migration_src_ok,
                   migration_tgt_ok, truncate_target, migration_running,
                   migration_completed, resume_from_checkpoint,
                   checkpoint_batch, batch_size, script, hist>>
    /\ UNCHANGED lib

\* The operator ticks or unticks "Resume from checkpoint" (drawn only when
\* a checkpoint exists).  The truncate checkbox was drawn earlier in the
\* same render, from the value resume had before.
ToggleResume ==
    /\ WithinBudget
    /\ pc = "idle"
    /\ migration_step = 3
    /\ checkpoint.exists
    /\ resume_from_checkpoint' = ~resume_from_checkpoint
    /\ truncate_disabled' = TruncateDisabled(checkpoint, resume_from_checkpoint)
    /\ UNCHANGED <<world, migration_step, migration_config, migration_src_ok,
                   migration_tgt_ok, migration_test_sample, truncate_target,
                   migration_running, migration_completed, checkpoint_batch,
                   batch_size, script, hist>>
    /\ UNCHANGED lib

\* clear_checkpoint: the file is removed if it exists.
clear_checkpoint(ck) == NoCheckpoint

\* Step 3, "Clear Checkpoint", and the render that follows its st.rerun().
ClearCheckpointButton ==
    /\ WithinBudget
    /\ pc = "idle"
    /\ migration_step = 3
    /\ checkpoint.exists
    /\ checkpoint' = clear_checkpoint(checkpoint)
    /\ resume_from_checkpoint' = FALSE
    /\ truncate_disabled' = FALSE
    /\ UNCHANGED <<source_rows, config, target, migration_step,
                   migration_config, migration_src_ok, migration_tgt_ok,
                   migration_test_sample, truncate_target, migration_running,
                   migration_completed, checkpoint_batch, batch_size, script,
                   hist>>
    /\ UNCHANGED lib

\* Step 3, "Back".
BackToStep2 ==
    /\ WithinBudget
    /\ pc = "idle"
    /\ migration_step = 3
    /\ migration_step' = 2
    /\ UNCHANGED <<world, migration_config, migration_src_ok, migration_tgt_ok,
                   migration_test_sample, truncate_target, migration_running,
                   migration_completed, resume_from_checkpoint,
                   checkpoint_batch, batch_size, truncate_disabled, script, hist>>
    /\ UNCHANGED lib

(* --------------------------- step 4: execution ------------------------- *)

\* The skip count the start button stores in checkpoint_batch.
ResumePointOfCheckpoint(ck, resume) ==
    IF ck.exists THEN ck.last_batch ELSE 0

ResumePoint(ck, resume) ==
    IF ck.exists /\ resume THEN ck.last_batch ELSE 0

\* "if batch_num <= skip_batches": the chunk is covered by the checkpoint.
SkipsBatchBelow(b, skip) == b < skip

SkipsBatch(b, skip) == b <= skip

\* A slip in the counting: "=" for "+=".
CountRowsAssigned(total, rows_in_batch) == rows_in_batch

\* "total_rows_processed += rows_in_batch"
CountRows(total, rows_in_batch) == total + rows_in_batch

\* The batch number the insert-failure handler saves.
FailureCheckpointBatch(b) == b - 1

\* "if st.session_state.migration_test_sample: break"
StopsAfterBatch(test_sample) == test_sample

\* "if not migration_failed": the end of the loop counts as success.
ReportsSuccess(failed) == ~failed

\* The two guards at the top of step 4: what the script does when it is
\* entered with these values of migration_running and migration_completed.
ExecutionGuardOpen(running, completed) == "run"

ExecutionGuard(running, completed) ==
    IF running THEN "already_running"
    ELSE IF completed THEN "already_completed"
    ELSE "run"

\* The script leaves no execution behind: its locals are gone.
ScriptGone ==
    /\ pc' = "idle"
    /\ pressed' = "none"
    /\ skip_batches' = 0
    /\ batch_num' = 0
    /\ total_rows_processed' = 0
    /\ migration_failed' = FALSE
    /\ trigger' = "none"
    /\ writes' = <<>>
    /\ attempted' = {}
    /\ inserted' = {}
    /\ cleaned' = FALSE
    /\ preflight_sql' = <<>>
    /\ lineage' = lineage

\* The script passes the guards: the execution starts with the skip count
\* it reads from the session.
BeginExecution(p, trig, skip) ==
    /\ runs < MaxRuns
    /\ runs' = runs + 1
    /\ pc' = "connect"
    /\ pressed' = p
    /\ status' = "running"
    /\ skip_batches' = skip
    /\ batch_num' = 0
    /\ total_rows_processed' = 0
    /\ migration_failed' = FALSE
    /\ trigger' = trig
    /\ writes' = <<>>
    /\ attempted' = {}
    /\ inserted' = {}
    /\ cleaned' = FALSE
    /\ preflight_sql' = <<>>
    /\ lineage' = lineage

\* Step 3, "Start Migration Engine" / "Resume Migration": the handler, its
\* st.rerun(), and the entry of the step-4 script that the rerun causes.
StartMigrationButton ==
    /\ pc = "idle"
    /\ migration_step = 3
    /\ checkpoint_batch' = ResumePoint(checkpoint, resume_from_checkpoint)
    /\ migration_step' = 4
    /\ migration_completed' = FALSE
    /\ truncate_disabled' = FALSE
    /\ ExecutionGuard(FALSE, FALSE) = "run"
    /\ migration_running' = TRUE
    /\ BeginExecution("none", "operator", checkpoint_batch')
    /\ UNCHANGED <<world, migration_config, migration_src_ok, migration_tgt_ok,
                   migration_test_sample, truncate_target,
                   resume_from_checkpoint, batch_size>>
    /\ UNCHANGED lib

\* "Start New Migration" as drawn by the two guard pages of step 4.
GuardPageReset ==
    /\ migration_running' = FALSE
    /\ migration_completed' = FALSE
    /\ migration_step' = 1
    /\ UNCHANGED <<migration_config, migration_src_ok, migration_tgt_ok,
                   migration_test_sample, truncate_target,
                   resume_from_checkpoint, checkpoint_batch, batch_size,
                   truncate_disabled>>

\* A run of the script at step 4 caused by a click on control p ("none": a
\* re-render without a click).
ScriptStart(p) ==
    LET g == ExecutionGuard(migration_running, migration_completed) IN
    IF g = "run"
    THEN /\ migration_running' = TRUE
         /\ BeginExecution(p, "rerender", checkpoint_batch)
         /\ UNCHANGED <<world, migration_step, migration_config,
                        migration_src_ok, migration_tgt_ok,
                        migration_test_sample, truncate_target,
                        migration_completed, resume_from_checkpoint,
                        checkpoint_batch, batch_size, truncate_disabled>>
    ELSE /\ ScriptGone
         /\ IF p = "start_new"
            THEN GuardPageReset /\ status' = "none"
            ELSE status' = g /\ UNCHANGED session
         /\ UNCHANGED <<world, runs>>

\* The page is drawn again without a click (hot reload, or the operator
\* comes back to the page from the sidebar).
Rerender ==
    /\ pc = "idle"
    /\ migration_step = 4
    /\ ScriptStart("none")
    /\ UNCHANGED lib

\* A click on "Download Full Log", drawn below a finished execution.
ClickDownloadLog ==
    /\ pc = "idle"
    /\ migration_step = 4
    /\ status \in {"failed", "critical", "complete"}
    /\ ScriptStart("download")
    /\ UNCHANGED lib

\* A click on "Start New Migration".
ClickStartNewMigration ==
    /\ pc = "idle"
    /\ migration_step = 4
    /\ ScriptStart("start_new")
    /\ UNCHANGED lib

\* A click on "Emergency Truncate Target Table", drawn by the insert-failure
\* handler.
ClickEmergencyTruncate ==
    /\ pc = "idle"
    /\ migration_step = 4
    /\ status = "failed"
    /\ ScriptStart("emergency")
    /\ UNCHANGED lib

\* The running script is stopped at one of its st.* calls by a rerun
\* request (the exception Streamlit raises there is not an Exception, so
\* the handler at the end of the execution does not see it), and the page
\* script runs again.
InterruptByRerun ==
    /\ pc \in RunPcs
    /\ ScriptStart("none")
    /\ UNCHANGED lib

\* The browser session ends (page reload, closed tab, server restart): the
\* script is stopped and a new session starts from the defaults.  Target
\* table and checkpoint file stay.
NewSession ==
    /\ WithinBudget
    /\ migration_step' = 1
    /\ migration_config' = NoConfig
    /\ migration_src_ok' = FALSE
    /\ migration_tgt_ok' = FALSE
    /\ migration_test_sample' = FALSE
    /\ truncate_target' = FALSE
    /\ migration_running' = FALSE
    /\ migration_completed' = FALSE
    /\ resume_from_checkpoint' = FALSE
    /\ checkpoint_batch' = 0
    /\ batch_size' = DefaultBatchSize
    /\ truncate_disabled' = FALSE
    /\ ScriptGone
    /\ status' = "none"
    /\ UNCHANGED <<world, runs>>
    /\ UNCHANGED lib

\* The "except Exception" handler around the execution.
CriticalError ==
    /\ migration_running' = FALSE
    /\ status' = "critical"
    /\ pc' = "footer"

\* CONNECTING as the rest of the execution sees it: it goes on to the
\* pre-flight or leaves for the handler of line 696.  LookupDatasources,
\* NegotiateCharset and CreateEngines follow the step call by call.
Connect ==
    /\ pc = "connect"
    /\ \E ok \in BOOLEAN :
          IF ok
          THEN pc' = "preflight" /\ UNCHANGED <<migration_running, status>>
          ELSE CriticalError
    /\ UNCHANGED <<world, migration_step, migration_config, migration_src_ok,
                   migration_tgt_ok, migration_test_sample, truncate_target,
                   migration_completed, resume_from_checkpoint,
                   checkpoint_batch, batch_size, truncate_disabled, pressed,
                   skip_batches, batch_num, total_rows_processed,
                   migration_failed, hist>>
    /\ UNCHANGED lib

\* The target holds rows that no chain of operator-started executions over
\* an initially empty target accounts for.
Dirty == [kind |-> "dirty", bs |-> 0]

\* What the execution that now starts its batch loop makes of the target:
\*   "fresh"    started by the operator, without resume, on an empty target;
\*   "resumed"  started by the operator with resume, after a "fresh" or
\*              "resumed" execution that did not complete;
\*   "dirty"    anything else (rows were there before, a chunk was dropped
\*              by a transformation error, or nobody asked for the execution).
Lineage(old, trig, skip, tgt, bs) ==
    IF trig # "operator" THEN Dirty
    ELSE IF skip = 0
         THEN (IF tgt = EmptyBag THEN [kind |-> "fresh", bs |-> bs] ELSE Dirty)
    ELSE IF old.kind \in {"fresh", "resumed"} /\ old.bs = bs
         THEN [kind |-> "resumed", bs |-> bs]
    ELSE Dirty

\* A pre-flight that starts with DELETE.
PreflightDeleteFirst(outcome) ==
    IF outcome = "truncate" THEN <<"DELETE">> ELSE <<"DELETE", "TRUNCATE">>

\* The statements the pre-flight sends to the target for an outcome:
\* TRUNCATE alone when it succeeds, DELETE after it when it raises.
PreflightStatements(outcome) ==
    IF outcome = "truncate" THEN <<"TRUNCATE">> ELSE <<"TRUNCATE", "DELETE">>

\* Pre-flight truncate: TRUNCATE, then DELETE if that fails; both failing
\* is a critical error.
Preflight ==
    /\ pc = "preflight"
    /\ IF truncate_target
       THEN \E outcome \in {"truncate", "delete", "fail"} :
               /\ preflight_sql' = PreflightStatements(outcome)
               /\ IF outcome = "fail"
                  THEN CriticalError /\ UNCHANGED <<target, cleaned, lineage>>
                  ELSE /\ target' = EmptyBag
                       /\ cleaned' = TRUE
                       /\ pc' = "schema"
                       /\ lineage' = Lineage(lineage, trigger, skip_batches,
                                             target', batch_size)
                       /\ UNCHANGED <<migration_running, status>>
       ELSE /\ pc' = "schema"
            /\ lineage' = Lineage(lineage, trigger, skip_batches, target, batch_size)
            /\ UNCHANGED <<target, cleaned, preflight_sql, migration_running,
                           status>>
    /\ UNCHANGED <<source_rows, config, checkpoint, migration_step,
                   migration_config, migration_src_ok, migration_tgt_ok,
                   migration_test_sample, truncate_target, migration_completed,
                   resume_from_checkpoint, checkpoint_batch, batch_size,
                   truncate_disabled, pressed, skip_batches, batch_num,
                   total_rows_processed, migration_failed, runs, trigger,
                   writes, attempted, inserted>>
    /\ UNCHANGED lib

\* Schema pre-check: whatever the inspection does, it only logs.
SchemaCheck ==
    /\ pc = "schema"
    /\ \E inspected \in BOOLEAN : pc' = "fetch"
    /\ UNCHANGED <<world, session, pressed, status, skip_batches, batch_num,
                   total_rows_processed, migration_failed, hist>>
    /\ UNCHANGED lib

\* The head of the batch loop: the next chunk of the cursor, and the skip
\* of the chunks a checkpoint covers.
Fetch ==
    /\ pc = "fetch"
    /\ \/ /\ CriticalError
          /\ UNCHANGED <<batch_num, total_rows_processed>>
       \/ /\ batch_num >= NumBatches(source_rows, batch_size)
          /\ pc' = "finish"
          /\ UNCHANGED <<batch_num, total_rows_processed, migration_running,
                         status>>
       \/ /\ batch_num < NumBatches(source_rows, batch_size)
          /\ batch_num' = batch_num + 1
          /\ IF SkipsBatch(batch_num', skip_batches)
             THEN /\ total_rows_processed' =
                        CountRows(total_rows_processed,
                                  Cardinality(BatchRows(batch_num', batch_size,
                                                        source_rows)))
                  /\ pc' = "fetch"
             ELSE /\ pc' = "transform"
                  /\ UNCHANGED total_rows_processed
          /\ UNCHANGED <<migration_running, status>>
    /\ UNCHANGED <<world, migration_step, migration_config, migration_src_ok,
                   migration_tgt_ok, migration_test_sample, truncate_target,
                   migration_completed, resume_from_checkpoint,
                   checkpoint_batch, batch_size, truncate_disabled, pressed,
                   skip_batches, migration_failed, hist>>
    /\ UNCHANGED lib

\* transform_batch on the chunk; an exception skips the chunk ("continue").
Transform ==
    /\ pc = "transform"
    /\ attempted' = attempted \cup {batch_num}
    /\ \E ok \in BOOLEAN :
          IF ok
          THEN pc' = "insert" /\ UNCHANGED lineage
          ELSE pc' = "fetch" /\ lineage' = Dirty
    /\ UNCHANGED <<world, session, pressed, status, skip_batches, batch_num,
                   total_rows_processed, migration_failed, runs, trigger,
                   writes, inserted, cleaned, preflight_sql>>
    /\ UNCHANGED lib

\* save_checkpoint as the execution calls it; the call is recorded.
save_checkpoint(batch, rows) ==
    /\ checkpoint' = CheckpointData(batch, rows)
    /\ writes' = Append(writes, [batch |-> batch, rows |-> rows])

\* batch_insert succeeds: the chunk is in the target and counted.
InsertOk ==
    /\ pc = "insert"
    /\ target' = target (+)
          SetToBag(transform_batch(BatchRows(batch_num, batch_size, source_rows),
                                   migration_config))
    /\ total_rows_processed' =
          CountRows(total_rows_processed,
                    Cardinality(BatchRows(batch_num, batch_size, source_rows)))
    /\ inserted' = inserted \cup {batch_num}
    /\ pc' = "save"
    /\ UNCHANGED <<source_rows, config, checkpoint, session, pressed, status,
                   skip_batches, batch_num, migration_failed, runs, trigger,
                   writes, attempted, cleaned, preflight_sql,
                   lineage>>
    /\ UNCHANGED lib

\* batch_insert raises: the handler saves the checkpoint of the chunk
\* before, draws the emergency button (and serves a click on it), and
\* breaks out of the loop.
InsertFail ==
    /\ pc = "insert"
    /\ save_checkpoint(FailureCheckpointBatch(batch_num), total_rows_processed)
    /\ IF pressed = "emergency"
       THEN \E ok \in BOOLEAN : target' = IF ok THEN EmptyBag ELSE target
       ELSE target' = target
    /\ status' = "failed"
    /\ migration_running' = FALSE
    /\ migration_failed' = TRUE
    /\ pc' = "finish"
    /\ UNCHANGED <<source_rows, config, migration_step, migration_config,
                   migration_src_ok, migration_tgt_ok, migration_test_sample,
                   truncate_target, migration_completed,
                   resume_from_checkpoint, checkpoint_batch, batch_size,
                   truncate_disabled, pressed, skip_batches, batch_num,
                   total_rows_processed, runs, trigger, attempted, inserted,
                   cleaned, preflight_sql, lineage>>
    /\ UNCHANGED lib

\* After a successful insert: the checkpoint of this chunk, and the
\* test-mode break.
SaveCheckpoint ==
    /\ pc = "save"
    /\ save_checkpoint(batch_num, total_rows_processed)
    /\ pc' = IF StopsAfterBatch(migration_test_sample) THEN "finish" ELSE "fetch"
    /\ UNCHANGED <<source_rows, config, target, session, pressed, status,
                   skip_batches, batch_num, total_rows_processed,
                   migration_failed, runs, trigger, attempted, inserted, cleaned,
                   preflight_sql, lineage>>
    /\ UNCHANGED lib

\* After the loop: success is reported and the checkpoint cleared unless an
\* insert failed; the running flag is released.
Finish ==
    /\ pc = "finish"
    /\ IF ReportsSuccess(migration_failed)
       THEN /\ checkpoint' = clear_checkpoint(checkpoint)
            /\ migration_completed' = TRUE
            /\ status' = "complete"
       ELSE UNCHANGED <<checkpoint, migration_completed, status>>
    /\ migration_running' = FALSE
    /\ pc' = "footer"
    /\ UNCHANGED <<source_rows, config, target, migration_step,
                   migration_config, migration_src_ok, migration_tgt_ok,
                   migration_test_sample, truncate_target,
                   resume_from_checkpoint, checkpoint_batch, batch_size,
                   truncate_disabled, pressed, skip_batches, batch_num,
                   total_rows_processed, migration_failed, hist>>
    /\ UNCHANGED lib

\* The buttons below the execution: "Start New Migration" is served here
\* when the script got this far.
Footer ==
    /\ pc = "footer"
    /\ IF pressed = "start_new"
       THEN /\ migration_running' = FALSE
            /\ migration_completed' = FALSE
            /\ resume_from_checkpoint' = FALSE
            /\ checkpoint_batch' = 0
            /\ migration_step' = 1
            /\ status' = "none"
            /\ UNCHANGED <<migration_config, migration_src_ok,
                           migration_tgt_ok, migration_test_sample,
                           truncate_target, batch_size, truncate_disabled>>
       ELSE UNCHANGED <<session, status>>
    /\ ScriptGone
    /\ UNCHANGED <<world, runs>>
    /\ UNCHANGED lib

Next ==
    \/ ProceedToConnectionTest
    \/ TestSource
    \/ TestTarget
    \/ BackToStep1
    \/ NextReviewExecute
    \/ SetBatchSize
    \/ ToggleTruncate
    \/ ToggleTestMode
    \/ ToggleResume
    \/ ClearCheckpointButton
    \/ BackToStep2
    \/ StartMigrationButton
    \/ Rerender
    \/ ClickDownloadLog
    \/ ClickStartNewMigration
    \/ ClickEmergencyTruncate
    \/ InterruptByRerun
    \/ NewSession
    \/ Connect
    \/ Preflight
    \/ SchemaCheck
    \/ Fetch
    \/ Transform
    \/ InsertOk
    \/ InsertFail
    \/ SaveCheckpoint
    \/ Finish
    \/ Footer

(* ========================= the checkpoint directory ==================== *)

\* Largest batch number written to a checkpoint file in this part.
MaxCheckpointBatch == 1

\* Names an operator gives to mapping configurations.
ConfigNames == { <<"a", " ", "b">>, <<"a", "_", "b">>, <<"c">> }

\* generate_json_config: the configuration the schema mapper stores; the name
\* the operator gave goes under the key "name".
generate_json_config(config_name) == [name |-> config_name, mappings |-> <<>>]

\* A configuration file written by hand that carries the key "config_name".
UploadedConfig(config_name) == [config_name |-> config_name, mappings |-> <<>>]

StoredConfigs ==
    {generate_json_config(n) : n \in ConfigNames}
        \cup {UploadedConfig(n) : n \in ConfigNames}

\* The name the operator gave to a stored configuration.
OwnName(cfg) == IF "name" \in DOMAIN cfg THEN cfg.name ELSE cfg.config_name

\* "config.get('config_name', 'migration')"
EngineConfigName(cfg) ==
    IF "config_name" \in DOMAIN cfg
    THEN cfg.config_name
    ELSE <<"m", "i", "g", "r", "a", "t", "i", "o", "n">>

\* str.isalnum on the characters that occur in the names.
IsAlnum(c) == c \in {"a", "b", "c", "g", "i", "m", "n", "o", "r", "t"}

\* "c if c.isalnum() or c in '-_' else '_'", character by character.
safe_name(config_name) ==
    [i \in DOMAIN config_name |->
        IF IsAlnum(config_name[i]) \/ config_name[i] \in {"-", "_"}
        THEN config_name[i]
        ELSE "_"]

\* The files the engine can address.
CheckpointFileNames == {safe_name(EngineConfigName(cfg)) : cfg \in StoredConfigs}

\* load_checkpoint on a checkpoint directory.
load_checkpoint(files, config_name) == files[safe_name(config_name)]

CheckpointStoreAtRest ==
    /\ checkpoint_files = [f \in CheckpointFileNames |-> NoCheckpoint]
    /\ last_op = [done |-> FALSE, cfg |-> UploadedConfig(<<"c">>),
                  before |-> [f \in CheckpointFileNames |-> NoCheckpoint]]

\* The engine saves the checkpoint of a configuration (lines 642, 648).
EngineSavesCheckpoint ==
    /\ \E cfg \in StoredConfigs, b \in 0..MaxCheckpointBatch :
          /\ checkpoint_files' =
                [checkpoint_files EXCEPT ![safe_name(EngineConfigName(cfg))] =
                    CheckpointData(b, b)]
          /\ last_op' = [done |-> TRUE, cfg |-> cfg, before |-> checkpoint_files]
    /\ UNCHANGED <<engine, generator, connpool, frames, connecting, validator,
                 schemacheck,
                 selectquery,
                 hnresume,
                 wizard>>

\* The engine clears the checkpoint of a configuration (lines 396, 689).
EngineClearsCheckpoint ==
    /\ \E cfg \in StoredConfigs :
          /\ checkpoint_files' =
                [checkpoint_files EXCEPT ![safe_name(EngineConfigName(cfg))] =
                    NoCheckpoint]
          /\ last_op' = [done |-> TRUE, cfg |-> cfg, before |-> checkpoint_files]
    /\ UNCHANGED <<engine, generator, connpool, frames, connecting, validator,
                 schemacheck,
                 selectquery,
                 hnresume,
                 wizard>>

CheckpointStoreNext == EngineSavesCheckpoint \/ EngineClearsCheckpoint

(* ============================ GENERATE_HN ============================== *)

\* Most GENERATE_HN calls followed between two resets.
MaxHNBatches == 4

\* Rows of a batch handed to GENERATE_HN (0: transform_series returns an
\* empty series as it is).
HNBatchSizes == 0..2

\* Values reset_hn_counter is called with.
HNStartValues == {0, 1}

DigitChar == <<"0", "1", "2", "3", "4", "5", "6", "7", "8", "9">>

\* str(i) for i >= 0.
RECURSIVE Digits(_)
Digits(i) ==
    IF i < 10 THEN <<DigitChar[i + 1]>>
    ELSE Digits(i \div 10) \o <<DigitChar[(i % 10) + 1]>>

\* str.zfill(width)
RECURSIVE zfill(_, _)
zfill(str, width) ==
    IF Len(str) >= width THEN str ELSE zfill(<<"0">> \o str, width)

\* f"HN{str(i).zfill(9)}"
FormatHN(i) == <<"H", "N">> \o zfill(Digits(i), 9)

\* A slip in the range: range(start, start + n).
HNBatchFromStart(start_counter, n) ==
    [i \in 1..n |-> FormatHN(start_counter + i - 1)]

\* "[f'HN...' for i in range(start_counter + 1, start_counter + len(series) + 1)]"
HNBatch(start_counter, n) == [i \in 1..n |-> FormatHN(start_counter + i)]

ThreadAtRest == [pc |-> "out", n |-> 0, start_counter |-> 0, loaded |-> 0]

GeneratorAtRest ==
    /\ hn_counter = 0
    /\ hn_start = 0
    /\ hn_batches = <<>>
    /\ hn_issued = <<>>
    /\ hn_thread = [t \in {1, 2} |-> ThreadAtRest]

\* One call of transform_series(series, "GENERATE_HN") in a process with a
\* single session, from its first line to its return.
GenerateHN ==
    /\ Len(hn_batches) < MaxHNBatches
    /\ \E n \in HNBatchSizes :
          /\ hn_batches' = Append(hn_batches, n)
          /\ hn_issued' = hn_issued \o HNBatch(hn_counter, n)
          /\ hn_counter' = hn_counter + n
    /\ UNCHANGED <<hn_start, hn_thread>>
    /\ UNCHANGED <<engine, ckstore, connpool, frames, connecting, validator,
                 schemacheck,
                 selectquery,
                 hnresume,
                 wizard>>

\* reset_hn_counter(start_value)
reset_hn_counter ==
    /\ \E start_value \in HNStartValues :
          /\ hn_counter' = start_value
          /\ hn_start' = start_value
    /\ hn_batches' = <<>>
    /\ hn_issued' = <<>>
    /\ UNCHANGED hn_thread
    /\ UNCHANGED <<engine, ckstore, connpool, frames, connecting, validator,
                 schemacheck,
                 selectquery,
                 hnresume,
                 wizard>>

GeneratorNext == GenerateHN \/ reset_hn_counter

(* Two sessions of one process inside transform_series(series,
   "GENERATE_HN") at the same time: each runs in a thread of its own, and the
   interpreter may switch threads between any two of the steps below. *)

SessionThreads == {1, 2}

\* Calls begun and not yet returned.
InFlight == Cardinality({t \in SessionThreads : hn_thread[t].pc # "out"})

\* "start_counter = DataTransformer._hn_counter" and the list built from it.
HNReadAndBuild(t) ==
    /\ hn_thread[t].pc = "out"
    /\ Len(hn_batches) + InFlight < MaxHNBatches
    /\ \E n \in HNBatchSizes \ {0} :
          /\ hn_thread' = [hn_thread EXCEPT ![t] =
                [pc |-> "built", n |-> n, start_counter |-> hn_counter,
                 loaded |-> 0]]
          /\ hn_issued' = hn_issued \o HNBatch(hn_counter, n)
    /\ UNCHANGED <<hn_counter, hn_start, hn_batches>>
    /\ UNCHANGED <<engine, ckstore, connpool, frames, connecting, validator,
                 schemacheck,
                 selectquery,
                 hnresume,
                 wizard>>

\* "DataTransformer._hn_counter += len(series)": the attribute is loaded ...
HNLoad(t) ==
    /\ hn_thread[t].pc = "built"
    /\ hn_thread' = [hn_thread EXCEPT ![t].pc = "loaded",
                                      ![t].loaded = hn_counter]
    /\ UNCHANGED <<hn_counter, hn_start, hn_batches, hn_issued>>
    /\ UNCHANGED <<engine, ckstore, connpool, frames, connecting, validator,
                 schemacheck,
                 selectquery,
                 hnresume,
                 wizard>>

\* ... and the sum is stored; the call returns.
HNStore(t) ==
    /\ hn_thread[t].pc = "loaded"
    /\ hn_counter' = hn_thread[t].loaded + hn_thread[t].n
    /\ hn_batches' = Append(hn_batches, hn_thread[t].n)
    /\ hn_thread' = [hn_thread EXCEPT ![t] = ThreadAtRest]
    /\ UNCHANGED <<hn_start, hn_issued>>
    /\ UNCHANGED <<engine, ckstore, connpool, frames, connecting, validator,
                 schemacheck,
                 selectquery,
                 hnresume,
                 wizard>>

ConcurrentGeneratorNext ==
    \E t \in SessionThreads : HNReadAndBuild(t) \/ HNLoad(t) \/ HNStore(t)

(* ========================= the connection pool ========================= *)

\* Most connections opened in one behaviour.
MaxConnections == 3

\* (db_type, host, port, db_name, user) of the datasources in use.
Datasources ==
    { <<"MySQL", "his", "3306", "hosp", "etl">>,
      <<"PostgreSQL", "dwh", "5432", "hosp", "etl">> }

Passwords == {"secret", "rotated"}

\* hashlib.md5(...).hexdigest(): a digest that tells its inputs apart.
md5(key_data) == [md5 |-> key_data]

\* A pool keyed by the password as well.
PoolKeyWithPassword(db_type, host, port, db_name, user, password) ==
    md5(<<db_type, ":", host, ":", port, ":", db_name, ":", user, ":", password>>)

\* _generate_key: md5 of f"{db_type}:{host}:{port}:{db_name}:{user}"
_generate_key(db_type, host, port, db_name, user) ==
    md5(<<db_type, ":", host, ":", port, ":", db_name, ":", user>>)

\* "conn_key = self._generate_key(db_type, host, port, db_name, user)" in
\* get_connection(db_type, host, port, db_name, user, password)
PoolKey(db_type, host, port, db_name, user, password) ==
    _generate_key(db_type, host, port, db_name, user)

\* A probe that never fails.
AlwaysAlive(conn, live) == TRUE

\* _is_connection_alive: "SELECT 1" answers.
_is_connection_alive(conn, live) == conn \in live

\* A connection of the low-level driver, opened with a password.
Connection(id, ds, password) == [id |-> id, ds |-> ds, password |-> password]

NoGet ==
    [done |-> FALSE, ok |-> FALSE, ds |-> <<>>, password |-> "",
     had_entry |-> FALSE, was_live |-> FALSE, entries_before |-> 0]

ConnPoolAtRest ==
    /\ connections = <<>>
    /\ created = 0
    /\ alive = {}
    /\ last_get = NoGet

\* The pool without its entry for a key.
Without(conns, key) == [k \in DOMAIN conns \ {key} |-> conns[k]]

\* get_connection(db_type, host, port, db_name, user, password), from the key
\* to the return or to the exception of _create_connection.
get_connection ==
    /\ created < MaxConnections
    /\ \E ds \in Datasources, password \in Passwords, opens \in BOOLEAN :
        LET conn_key == PoolKey(ds[1], ds[2], ds[3], ds[4], ds[5], password)
            had == conn_key \in DOMAIN connections
            seen == [done |-> TRUE, ds |-> ds, password |-> password,
                     had_entry |-> had,
                     was_live |-> had /\ connections[conn_key] \in alive,
                     entries_before |-> Cardinality(DOMAIN connections)]
        IN  IF had /\ _is_connection_alive(connections[conn_key], alive)
            THEN /\ last_get' = seen @@ [ok |-> TRUE,
                                         cached |-> connections[conn_key],
                                         returned |-> connections[conn_key]]
                 /\ UNCHANGED <<connections, created, alive>>
            ELSE LET conn == Connection(created + 1, ds, password)
                     rest == Without(connections, conn_key)
                     was == IF had THEN [cached |-> connections[conn_key]]
                            ELSE <<>>
                 IN  IF opens
                     THEN /\ connections' = rest @@ (conn_key :> conn)
                          /\ created' = created + 1
                          /\ alive' = alive \cup {conn}
                          /\ last_get' = seen @@ was
                                         @@ [ok |-> TRUE, returned |-> conn]
                     ELSE /\ connections' = rest
                          /\ last_get' = seen @@ was @@ [ok |-> FALSE]
                          /\ UNCHANGED <<created, alive>>
    /\ UNCHANGED <<engine, ckstore, generator, frames, connecting, validator,
                 schemacheck,
                 selectquery,
                 hnresume,
                 wizard>>

\* The server or the network drops a connection.
ConnectionDies ==
    /\ \E conn \in alive : alive' = alive \ {conn}
    /\ UNCHANGED <<connections, created, last_get>>
    /\ UNCHANGED <<engine, ckstore, generator, frames, connecting, validator,
                 schemacheck,
                 selectquery,
                 hnresume,
                 wizard>>

ConnPoolNext == get_connection \/ ConnectionDies

(* ------------------- transform_batch on mapping configurations -------- *)

\* The transformer chains a mapping carries here.
Chains ==
    {<<>>, <<"UPPER_TRIM">>, <<"UPPER_TRIM", "LOWER_TRIM">>,
     <<"LOWER_TRIM", "UPPER_TRIM">>}

\* The target names a mapping carries here.
TargetNames == {"name", "NAME", "sex", "gender"}

\* Configurations of two field mappings, one per column of the source table.
MappingConfigs ==
    { [config_name |-> "patients",
       mappings |->
         <<[source |-> "NAME", target |-> t1, transformers |-> c1, ignore |-> g1],
           [source |-> "sex", target |-> t2, transformers |-> c2, ignore |-> g2]>>]
      : t1 \in TargetNames, t2 \in TargetNames,
        c1 \in Chains, c2 \in Chains, g1 \in BOOLEAN, g2 \in BOOLEAN }

\* No step raises, or one (mapping, step) does.
RaisingChoices ==
    {{}} \cup {{<<i, k>>} : i \in DOMAIN SourceTableColumns, k \in 1..2}

FramesAtRest ==
    /\ tb_config = [config_name |-> "patients", mappings |-> <<>>]
    /\ tb_raising = {}
    /\ tb_chunk = <<>>
    /\ tb_out = <<>>
    /\ tb_pc = "query"

\* pd.read_sql(select_query, ...) yields a chunk.
ReadChunk ==
    /\ tb_pc = "query"
    /\ tb_chunk' = read_sql(tb_config, 1)
    /\ tb_pc' = "chunk"
    /\ UNCHANGED <<tb_config, tb_raising, tb_out>>
    /\ UNCHANGED <<engine, ckstore, generator, connpool, connecting, validator,
                 schemacheck,
                 selectquery,
                 hnresume,
                 wizard>>

\* df_batch = transform_batch(df_batch, config)
TransformBatch ==
    /\ tb_pc = "chunk"
    /\ tb_out' = TransformFrame(tb_chunk, tb_config, tb_raising)
    /\ tb_pc' = "transformed"
    /\ UNCHANGED <<tb_config, tb_raising, tb_chunk>>
    /\ UNCHANGED <<engine, ckstore, generator, connpool, connecting, validator,
                 schemacheck,
                 selectquery,
                 hnresume,
                 wizard>>

FramesNext == ReadChunk \/ TransformBatch

(* ------------------------------ CONNECTING ---------------------------- *)

\* The dialects create_sqlalchemy_engine builds a URL for.
SupportedDialects == {"MySQL", "PostgreSQL", "Microsoft SQL Server"}

\* db.get_datasource_by_name: the stored profile, or None.
NoProfile == [db_type |-> "none"]

Profiles == {[db_type |-> d] : d \in SupportedDialects}

\* charset_map of step 2: what the selectbox leaves in session src_charset.
NoCharset == "None"

SessionCharsets == {NoCharset, "tis620", "latin1"}

\* Lines 498-501: tis620 is WIN874 for a PostgreSQL source.
NegotiatedCharset(db_type, src_charset) ==
    IF db_type = "PostgreSQL" /\ src_charset = "tis620" THEN "WIN874"
    ELSE src_charset

\* The parameters of create_sqlalchemy_engine, in order.
EngineParameters == <<"db_type", "host", "port", "db_name", "user", "password">>

\* Python binds a call to a signature without *args/**kwargs when every
\* keyword names a parameter not yet bound by position and every parameter
\* is bound; otherwise the call raises TypeError.
Binds(parameters, positional, keywords) ==
    /\ positional <= Len(parameters)
    /\ keywords \subseteq {parameters[i] : i \in (positional + 1)..Len(parameters)}
    /\ positional + Cardinality(keywords) = Len(parameters)

NoEngine == [raised |-> "none", dialect |-> "none", query |-> "none"]

\* The connection-URL query each dialect's engine is created with.
UrlQuery(db_type) ==
    CASE db_type = "MySQL" -> [charset |-> "utf8mb4"]
      [] db_type = "PostgreSQL" -> [client_encoding |-> "utf8"]
      [] db_type = "Microsoft SQL Server" -> [charset |-> "utf8"]

\* connector.create_sqlalchemy_engine called with the six profile fields by
\* position and the given keyword arguments.
create_sqlalchemy_engine(db_type, keywords) ==
    IF ~Binds(EngineParameters, Len(EngineParameters), keywords)
    THEN [raised |-> "TypeError", dialect |-> "none", query |-> "none"]
    ELSE IF db_type \notin SupportedDialects
    THEN [raised |-> "ValueError", dialect |-> "none", query |-> "none"]
    ELSE [raised |-> "none", dialect |-> db_type, query |-> UrlQuery(db_type)]

ConnectingAtRest ==
    /\ cn_src = NoProfile
    /\ cn_tgt = NoProfile
    /\ cn_charset = NoCharset
    /\ cn_src_engine = NoEngine
    /\ cn_tgt_engine = NoEngine
    /\ cn_pc = "connect"

\* Lines 489-494: the profiles are looked up; a missing one is a ValueError.
LookupDatasources ==
    /\ cn_pc = "connect"
    /\ cn_pc' = IF cn_src = NoProfile \/ cn_tgt = NoProfile
                THEN "critical" ELSE "negotiate"
    /\ UNCHANGED <<cn_src, cn_tgt, cn_charset, cn_src_engine, cn_tgt_engine>>
    /\ UNCHANGED <<engine, ckstore, generator, connpool, frames, validator,
                 schemacheck,
                 selectquery,
                 hnresume,
                 wizard>>

\* Lines 496-501: the source charset is read and adjusted.
NegotiateCharset ==
    /\ cn_pc = "negotiate"
    /\ cn_charset' = NegotiatedCharset(cn_src.db_type, cn_charset)
    /\ cn_pc' = "engines"
    /\ UNCHANGED <<cn_src, cn_tgt, cn_src_engine, cn_tgt_engine>>
    /\ UNCHANGED <<engine, ckstore, generator, connpool, frames, validator,
                 schemacheck,
                 selectquery,
                 hnresume,
                 wizard>>

\* Lines 503-509: the source engine is asked for with charset=src_charset,
\* then the target engine; an exception leaves for the handler of line 696.
CreateEngines ==
    /\ cn_pc = "engines"
    /\ LET src_engine == create_sqlalchemy_engine(cn_src.db_type, {"charset"})
           tgt_engine == create_sqlalchemy_engine(cn_tgt.db_type, {})
       IN  IF src_engine.raised # "none"
           THEN /\ cn_pc' = "critical"
                /\ UNCHANGED <<cn_src_engine, cn_tgt_engine>>
           ELSE IF tgt_engine.raised # "none"
           THEN /\ cn_pc' = "critical"
                /\ cn_src_engine' = src_engine
                /\ UNCHANGED cn_tgt_engine
           ELSE /\ cn_pc' = "preflight"
                /\ cn_src_engine' = src_engine
                /\ cn_tgt_engine' = tgt_engine
    /\ UNCHANGED <<cn_src, cn_tgt, cn_charset>>
    /\ UNCHANGED <<engine, ckstore, generator, connpool, frames, validator,
                 schemacheck,
                 selectquery,
                 hnresume,
                 wizard>>

ConnectingNext == LookupDatasources \/ NegotiateCharset \/ CreateEngines

(* --------------------------- THAI_ID validator ------------------------ *)

\* The length of a Thai national ID.
ThaiIdLength == 13

\* str.isdigit() on the characters that occur.
isdigit(str) ==
    str # <<>> /\ \A i \in DOMAIN str : \E d \in DOMAIN DigitChar : DigitChar[d] = str[i]

\* int(d) for a digit character.
IntOfDigit(c) == (CHOOSE d \in DOMAIN DigitChar : DigitChar[d] = c) - 1

\* sum((13 - i) * digits[i] for i in range(k)); digits[k] here is Python's
\* digits[k - 1].
RECURSIVE WeightedSum(_, _)
WeightedSum(digits, k) ==
    IF k = 0 THEN 0
    ELSE WeightedSum(digits, k - 1) + (ThaiIdLength - (k - 1)) * digits[k]

\* A check that compares the last digit with 11 - checksum itself.
CheckThaiIdUnfolded(id_number) ==
    IF Len(id_number) # ThaiIdLength \/ ~isdigit(id_number) THEN FALSE
    ELSE LET digits == [i \in DOMAIN id_number |-> IntOfDigit(id_number[i])]
             checksum == WeightedSum(digits, ThaiIdLength - 1) % 11
         IN  11 - checksum = digits[ThaiIdLength]

check_thai_id(id_number) ==
    IF Len(id_number) # ThaiIdLength \/ ~isdigit(id_number) THEN FALSE
    ELSE LET digits == [i \in DOMAIN id_number |-> IntOfDigit(id_number[i])]
             checksum == WeightedSum(digits, ThaiIdLength - 1) % 11
             check_digit == (11 - checksum) % 10
         IN  check_digit = digits[ThaiIdLength]

\* validate_value for the validators that read the value as a string: the
\* value is stripped; an empty value passes every validator but REQUIRED
\* and NOT_EMPTY.
validate_value(value, validator_name) ==
    IF validator_name \in {"REQUIRED", "NOT_EMPTY"} THEN Strip(value) # <<>>
    ELSE IF Strip(value) = <<>> THEN TRUE
    ELSE IF validator_name = "MIN_LENGTH_13" THEN Len(Strip(value)) >= ThaiIdLength
    ELSE IF validator_name = "THAI_ID" THEN check_thai_id(Strip(value))
    ELSE TRUE

\* The digits that vary in the values validated: the leading four.
LeadingDigits == {"0", "1", "9"}

AllDigits == {DigitChar[d] : d \in DOMAIN DigitChar}

\* 13-digit strings: four leading digits, eight zeros, any last digit.
ThaiIdInputs ==
    { <<a, b, c, d, "0", "0", "0", "0", "0", "0", "0", "0", z>>
      : a \in LeadingDigits, b \in LeadingDigits, c \in LeadingDigits,
        d \in LeadingDigits, z \in AllDigits }

ValidatorAtRest ==
    /\ tid = <<>>
    /\ tid_orig = <<>>
    /\ tid_pos = 0
    /\ tid_ok = TRUE
    /\ tid_orig_ok = TRUE
    /\ tid_pc = "idle"

\* validate_value(value, "THAI_ID") on the value at hand.
ValidateThaiId ==
    /\ tid_pc \in {"input", "changed"}
    /\ tid_ok' = validate_value(tid, "THAI_ID")
    /\ tid_orig_ok' = IF tid_pc = "input" THEN validate_value(tid, "THAI_ID")
                      ELSE tid_orig_ok
    /\ tid_pc' = IF tid_pc = "input" THEN "validated" ELSE "revalidated"
    /\ UNCHANGED <<tid, tid_orig, tid_pos>>
    /\ UNCHANGED <<engine, ckstore, generator, connpool, frames, connecting,
                 schemacheck,
                 selectquery,
                 hnresume,
                 wizard>>

\* The next value to validate: a valid one with a single digit changed.
ChangeDigit ==
    /\ tid_pc = "validated"
    /\ tid_ok
    /\ \E p \in DOMAIN tid, c \in AllDigits :
          /\ c # tid[p]
          /\ tid' = [tid EXCEPT ![p] = c]
          /\ tid_pos' = p
    /\ tid_pc' = "changed"
    /\ UNCHANGED <<tid_orig, tid_ok, tid_orig_ok>>
    /\ UNCHANGED <<engine, ckstore, generator, connpool, frames, connecting,
                 schemacheck,
                 selectquery,
                 hnresume,
                 wizard>>

ValidatorNext == ValidateThaiId \/ ChangeDigit

(* --------------------------- schema pre-check ------------------------- *)

\* getattr(col_type, 'length', None) giving None.
NoLength == -1

\* The length limits a column type carries here.
ColumnLengths == {NoLength, 10, 20}

\* What one pre-check meets: whether sqlalchemy.inspect raises, how
\* get_columns fares (with the split name, with the full name after the
\* split one raised, or not at all), and one mapping with the types of its
\* two columns.
SchemaInputs ==
    [inspect : {"ok", "raises"},
     get_columns : {"split", "full", "raises"},
     ignore : BOOLEAN,
     known : BOOLEAN,
     src_len : ColumnLengths,
     tgt_len : ColumnLengths]

\* Lines 570-574: the pair is reported when the target has a limit and the
\* source has none or a larger one.
TruncationRisk(src_len, tgt_len) ==
    /\ tgt_len # NoLength
    /\ src_len = NoLength \/ src_len > tgt_len

\* Lines 556-574 for the mapping: ignored mappings and columns the
\* inspection did not return are passed over.
Warnings(in) ==
    IF ~in.ignore /\ in.known /\ TruncationRisk(in.src_len, in.tgt_len)
    THEN {"source -> target"} ELSE {}

\* A pre-check whose exception leaves the execution.
SchemaCheckReraises(e) == [pc |-> "critical", log |-> e]

\* Lines 585-586: "except Exception" around the pre-check logs and goes on.
SchemaCheckHandler(e) == [pc |-> "query", log |-> "skipped"]

SchemaCheckAtRest ==
    /\ sc_in = [inspect |-> "ok", get_columns |-> "split", ignore |-> FALSE,
                known |-> FALSE, src_len |-> NoLength, tgt_len |-> NoLength]
    /\ sc_log = "none"
    /\ sc_warnings = {}
    /\ sc_pc = "schema"

\* Lines 537-553: the inspectors and the column definitions.
InspectColumns ==
    /\ sc_pc = "schema"
    /\ IF sc_in.inspect = "raises" \/ sc_in.get_columns = "raises"
       THEN /\ sc_pc' = SchemaCheckHandler("inspection").pc
            /\ sc_log' = SchemaCheckHandler("inspection").log
       ELSE /\ sc_pc' = "compare"
            /\ sc_log' = sc_log
    /\ UNCHANGED <<sc_in, sc_warnings>>
    /\ UNCHANGED <<engine, ckstore, generator, connpool, frames, connecting,
                   validator,
                 selectquery,
                 hnresume,
                 wizard>>

\* Lines 555-583: the lengths are compared and the outcome logged.
CompareLengths ==
    /\ sc_pc = "compare"
    /\ sc_warnings' = Warnings(sc_in)
    /\ sc_log' = IF Warnings(sc_in) # {} THEN "warned" ELSE "passed"
    /\ sc_pc' = "query"
    /\ UNCHANGED sc_in
    /\ UNCHANGED <<engine, ckstore, generator, connpool, frames, connecting,
                   validator,
                 selectquery,
                 hnresume,
                 wizard>>

SchemaCheckNext == InspectColumns \/ CompareLengths

(* ------------------------- generate_select_query ---------------------- *)

\* The source names a mapping carries here; "hn" is no column of the
\* source table.
SourceNames == {"NAME", "sex", "hn"}

SelectMappings ==
    [source : SourceNames, ignore : BOOLEAN,
     transformers : {<<>>, <<"GENERATE_HN">>}]

\* An empty configuration, one without a mappings key, and configurations
\* of up to two mappings.
SelectConfigs ==
    {[k \in {} |-> k], [config_name |-> "patients"]}
    \cup {[config_name |-> "patients", mappings |-> ms] :
             ms \in {<<>>} \cup {<<m>> : m \in SelectMappings}
                    \cup {<<m, n>> : m \in SelectMappings, n \in SelectMappings}}

SelectQueryAtRest ==
    /\ sq_config = [k \in {} |-> k]
    /\ sq_query = <<>>
    /\ sq_pc = "config"

\* select_query = generate_select_query(config, source_table)
BuildSelect ==
    /\ sq_pc = "config"
    /\ sq_query' = generate_select_query(sq_config)
    /\ sq_pc' = "query"
    /\ UNCHANGED sq_config
    /\ UNCHANGED <<engine, ckstore, generator, connpool, frames, connecting,
                   validator, schemacheck,
                 hnresume,
                 wizard>>

\* pd.read_sql(select_query, ...): the database refuses a projection that
\* names a column the table does not have.
ExecuteSelect ==
    /\ sq_pc = "query"
    /\ sq_pc' = IF \A i \in DOMAIN ProjectedColumns(sq_query) :
                      \E c \in DOMAIN SourceTableColumns :
                          SourceTableColumns[c] = ProjectedColumns(sq_query)[i]
                THEN "iterating" ELSE "critical"
    /\ UNCHANGED <<sq_config, sq_query>>
    /\ UNCHANGED <<engine, ckstore, generator, connpool, frames, connecting,
                   validator, schemacheck,
                 hnresume,
                 wizard>>

SelectQueryNext == BuildSelect \/ ExecuteSelect

(* -------------------- GENERATE_HN across run and resume --------------- *)

\* Chunks of the source, rows of a chunk, executions followed.
HNResumeBatches == 3
HNResumeBatchRows == 2
HNResumeRuns == 2

HNResumeAtRest ==
    /\ hr_target = {}
    /\ hr_checkpoint = 0
    /\ hr_run = 0
    /\ hr_skip = 0
    /\ hr_batch_num = 0
    /\ hr_ids = <<>>
    /\ hr_pc = "idle"

\* The operator starts an execution, with resume when a checkpoint exists:
\* skip_batches is the checkpoint's last_batch.
HNRunStart ==
    /\ hr_pc = "idle"
    /\ hr_run < HNResumeRuns
    /\ hr_run' = hr_run + 1
    /\ hr_skip' = hr_checkpoint
    /\ hr_batch_num' = 0
    /\ hr_ids' = <<>>
    /\ hr_pc' = "fetch"
    /\ UNCHANGED <<hr_target, hr_checkpoint>>
    /\ UNCHANGED <<engine, ckstore, generator, connpool, frames, connecting,
                   validator, schemacheck, selectquery,
                 wizard>>

\* The head of the loop: the next chunk; a chunk the checkpoint covers is
\* counted and skipped before any transformer runs; after the last chunk
\* the checkpoint is cleared.
HNRunFetch ==
    /\ hr_pc = "fetch"
    /\ IF hr_batch_num >= HNResumeBatches
       THEN /\ hr_pc' = "idle"
            /\ hr_checkpoint' = 0
            /\ UNCHANGED hr_batch_num
       ELSE /\ hr_batch_num' = hr_batch_num + 1
            /\ hr_pc' = IF SkipsBatch(hr_batch_num', hr_skip)
                        THEN "fetch" ELSE "transform"
            /\ UNCHANGED hr_checkpoint
    /\ UNCHANGED <<hr_target, hr_run, hr_skip, hr_ids>>
    /\ UNCHANGED <<engine, ckstore, generator, connpool, frames, connecting,
                   validator, schemacheck, selectquery,
                 wizard>>

\* transform_batch on the chunk: GENERATE_HN gives its rows the identifiers
\* after the process's counter and advances the counter.
HNRunTransform ==
    /\ hr_pc = "transform"
    /\ hr_ids' = HNBatch(hn_counter, HNResumeBatchRows)
    /\ hn_counter' = hn_counter + HNResumeBatchRows
    /\ hr_pc' = "insert"
    /\ UNCHANGED <<hr_target, hr_checkpoint, hr_run, hr_skip, hr_batch_num>>
    /\ UNCHANGED <<hn_start, hn_batches, hn_issued, hn_thread>>
    /\ UNCHANGED <<engine, ckstore, connpool, frames, connecting, validator,
                   schemacheck, selectquery,
                 wizard>>

\* batch_insert: the rows of the chunk reach the target with their
\* identifiers.
HNRunInsert ==
    /\ hr_pc = "insert"
    /\ hr_target' = hr_target \cup
          {[row |-> (hr_batch_num - 1) * HNResumeBatchRows + i,
            hn |-> hr_ids[i], run |-> hr_run] : i \in DOMAIN hr_ids}
    /\ hr_pc' = "save"
    /\ UNCHANGED <<hr_checkpoint, hr_run, hr_skip, hr_batch_num, hr_ids>>
    /\ UNCHANGED <<engine, ckstore, generator, connpool, frames, connecting,
                   validator, schemacheck, selectquery,
                 wizard>>

\* save_checkpoint(config_name, batch_num, ...)
HNRunSave ==
    /\ hr_pc = "save"
    /\ hr_checkpoint' = hr_batch_num
    /\ hr_pc' = "fetch"
    /\ UNCHANGED <<hr_target, hr_run, hr_skip, hr_batch_num, hr_ids>>
    /\ UNCHANGED <<engine, ckstore, generator, connpool, frames, connecting,
                   validator, schemacheck, selectquery,
                 wizard>>

\* The execution is interrupted; the process lives on.
HNRunInterrupt ==
    /\ hr_pc # "idle"
    /\ hr_pc' = "idle"
    /\ UNCHANGED <<hr_target, hr_checkpoint, hr_run, hr_skip, hr_batch_num, hr_ids>>
    /\ UNCHANGED <<engine, ckstore, generator, connpool, frames, connecting,
                   validator, schemacheck, selectquery,
                 wizard>>

\* The process ends and a new one starts: the class body of
\* DataTransformer runs again, "_hn_counter = 0".
HNNewProcess ==
    /\ hr_run < HNResumeRuns
    /\ hr_pc' = "idle"
    /\ hn_counter' = 0
    /\ UNCHANGED <<hr_target, hr_checkpoint, hr_run, hr_skip, hr_batch_num, hr_ids>>
    /\ UNCHANGED <<hn_start, hn_batches, hn_issued, hn_thread>>
    /\ UNCHANGED <<engine, ckstore, connpool, frames, connecting, validator,
                   schemacheck, selectquery,
                 wizard>>

HNResumeNext ==
    \/ HNRunStart \/ HNRunFetch \/ HNRunTransform \/ HNRunInsert
    \/ HNRunSave \/ HNRunInterrupt \/ HNNewProcess

(* ================== the wizard and the datasource profiles ============== *)

\* The first entry of both profile select boxes.
SelectProfile == "Select Profile..."

\* The options of the select boxes: the placeholder and the names of the
\* stored datasources.
ds_options == {SelectProfile, "his", "warehouse"}

\* No connection test was made.
NoTest == [profile |-> SelectProfile, ok |-> FALSE]

\* What a successful connection test does to the connected flag, when
\* nothing else touches it.
ConnectedAfterTest(flag, ok) == IF ok THEN TRUE ELSE flag

WizardAtRest ==
    /\ wz_step = 1
    /\ wz_src_profile = SelectProfile
    /\ wz_tgt_profile = SelectProfile
    /\ wz_src_ok = FALSE
    /\ wz_tgt_ok = FALSE
    /\ wz_src_tested = NoTest
    /\ wz_tgt_tested = NoTest
    /\ wz_run = <<>>

\* Step 1, "Proceed to Connection Test", and the first render of step 2: the
\* select boxes are new widgets, show their first option, and lines 288 and
\* 316 store it.
WzProceed ==
    /\ wz_step = 1
    /\ wz_step' = 2
    /\ wz_src_profile' = SelectProfile
    /\ wz_tgt_profile' = SelectProfile
    /\ UNCHANGED <<wz_src_ok, wz_tgt_ok, wz_src_tested, wz_tgt_tested, wz_run>>
    /\ UNCHANGED <<engine, ckstore, generator, connpool, frames, connecting,
                   validator, schemacheck, selectquery, hnresume>>

\* Step 2: the operator picks another source profile; the script reruns and
\* line 288 stores the selection.
WzSelectSource ==
    /\ wz_step = 2
    /\ \E p \in ds_options \ {wz_src_profile} : wz_src_profile' = p
    /\ UNCHANGED <<wz_step, wz_tgt_profile, wz_src_ok, wz_tgt_ok,
                   wz_src_tested, wz_tgt_tested, wz_run>>
    /\ UNCHANGED <<engine, ckstore, generator, connpool, frames, connecting,
                   validator, schemacheck, selectquery, hnresume>>

\* Step 2: the operator picks another target profile (line 316).
WzSelectTarget ==
    /\ wz_step = 2
    /\ \E p \in ds_options \ {wz_tgt_profile} : wz_tgt_profile' = p
    /\ UNCHANGED <<wz_step, wz_src_profile, wz_src_ok, wz_tgt_ok,
                   wz_src_tested, wz_tgt_tested, wz_run>>
    /\ UNCHANGED <<engine, ckstore, generator, connpool, frames, connecting,
                   validator, schemacheck, selectquery, hnresume>>

\* Step 2, "Test Source" (lines 303-310): offered for a profile other than
\* the placeholder.
WzTestSource ==
    /\ wz_step = 2
    /\ wz_src_profile # SelectProfile
    /\ \E ok \in BOOLEAN :
          /\ wz_src_ok' = ConnectedAfterTest(wz_src_ok, ok)
          /\ wz_src_tested' = [profile |-> wz_src_profile, ok |-> ok]
    /\ UNCHANGED <<wz_step, wz_src_profile, wz_tgt_profile, wz_tgt_ok,
                   wz_tgt_tested, wz_run>>
    /\ UNCHANGED <<engine, ckstore, generator, connpool, frames, connecting,
                   validator, schemacheck, selectquery, hnresume>>

\* Step 2, "Test Target" (lines 317-324).
WzTestTarget ==
    /\ wz_step = 2
    /\ wz_tgt_profile # SelectProfile
    /\ \E ok \in BOOLEAN :
          /\ wz_tgt_ok' = ConnectedAfterTest(wz_tgt_ok, ok)
          /\ wz_tgt_tested' = [profile |-> wz_tgt_profile, ok |-> ok]
    /\ UNCHANGED <<wz_step, wz_src_profile, wz_tgt_profile, wz_src_ok,
                   wz_src_tested, wz_run>>
    /\ UNCHANGED <<engine, ckstore, generator, connpool, frames, connecting,
                   validator, schemacheck, selectquery, hnresume>>

\* Step 2, "Back".
WzBack ==
    /\ wz_step = 2
    /\ wz_step' = 1
    /\ UNCHANGED <<wz_src_profile, wz_tgt_profile, wz_src_ok, wz_tgt_ok,
                   wz_src_tested, wz_tgt_tested, wz_run>>
    /\ UNCHANGED <<engine, ckstore, generator, connpool, frames, connecting,
                   validator, schemacheck, selectquery, hnresume>>

\* Step 2, "Next: Review & Execute", drawn when both flags are set.
WzNext ==
    /\ wz_step = 2
    /\ wz_src_ok /\ wz_tgt_ok
    /\ wz_step' = 3
    /\ UNCHANGED <<wz_src_profile, wz_tgt_profile, wz_src_ok, wz_tgt_ok,
                   wz_src_tested, wz_tgt_tested, wz_run>>
    /\ UNCHANGED <<engine, ckstore, generator, connpool, frames, connecting,
                   validator, schemacheck, selectquery, hnresume>>

\* Step 3, "Back", and the render of step 2 that follows: the select boxes
\* were not drawn at step 3, so they are new widgets again.
WzBackToStep2 ==
    /\ wz_step = 3
    /\ wz_step' = 2
    /\ wz_src_profile' = SelectProfile
    /\ wz_tgt_profile' = SelectProfile
    /\ UNCHANGED <<wz_src_ok, wz_tgt_ok, wz_src_tested, wz_tgt_tested, wz_run>>
    /\ UNCHANGED <<engine, ckstore, generator, connpool, frames, connecting,
                   validator, schemacheck, selectquery, hnresume>>

\* Step 3, "Start Migration Engine".
WzStart ==
    /\ wz_step = 3
    /\ wz_step' = 4
    /\ wz_run' = <<>>
    /\ UNCHANGED <<wz_src_profile, wz_tgt_profile, wz_src_ok, wz_tgt_ok,
                   wz_src_tested, wz_tgt_tested>>
    /\ UNCHANGED <<engine, ckstore, generator, connpool, frames, connecting,
                   validator, schemacheck, selectquery, hnresume>>

\* Step 4, lines 486-487: the execution takes the profile names from the
\* session and looks the datasources up.
WzConnect ==
    /\ wz_step = 4
    /\ wz_run = <<>>
    /\ wz_run' = <<wz_src_profile, wz_tgt_profile>>
    /\ UNCHANGED <<wz_step, wz_src_profile, wz_tgt_profile, wz_src_ok,
                   wz_tgt_ok, wz_src_tested, wz_tgt_tested>>
    /\ UNCHANGED <<engine, ckstore, generator, connpool, frames, connecting,
                   validator, schemacheck, selectquery, hnresume>>

\* Step 4, "Start New Migration" (lines 703-711): the connected flags are
\* not among the session values it resets.
WzStartNew ==
    /\ wz_step = 4
    /\ wz_step' = 1
    /\ wz_run' = <<>>
    /\ UNCHANGED <<wz_src_profile, wz_tgt_profile, wz_src_ok, wz_tgt_ok,
                   wz_src_tested, wz_tgt_tested>>
    /\ UNCHANGED <<engine, ckstore, generator, connpool, frames, connecting,
                   validator, schemacheck, selectquery, hnresume>>

WizardNext ==
    \/ WzProceed \/ WzSelectSource \/ WzSelectTarget \/ WzTestSource
    \/ WzTestTarget \/ WzBack \/ WzNext \/ WzBackToStep2 \/ WzStart
    \/ WzConnect \/ WzStartNew

(* ============================ specifications =========================== *)

\* The parts at rest.
LibAtRest ==
    /\ CheckpointStoreAtRest /\ GeneratorAtRest /\ ConnPoolAtRest
    /\ WizardAtRest
    /\ HNResumeAtRest
    /\ SelectQueryAtRest
    /\ SchemaCheckAtRest
    /\ FramesAtRest /\ ConnectingAtRest /\ ValidatorAtRest

\* The engine at rest in a fixed world, for the specifications of the parts.
EngineAtRest ==
    /\ EngineInit
    /\ source_rows = 1
    /\ \A t \in DOMAIN config.mappings[1].transformers :
          config.mappings[1].transformers[t] = "UPPER_TRIM"

Init == EngineInit /\ LibAtRest

Spec == Init /\ [][Next]_vars

CheckpointStoreInit == EngineAtRest /\ LibAtRest

SpecCheckpointStore == CheckpointStoreInit /\ [][CheckpointStoreNext]_vars

GeneratorInit == EngineAtRest /\ LibAtRest

SpecGenerator == GeneratorInit /\ [][GeneratorNext]_vars

SpecConcurrentGenerator == GeneratorInit /\ [][ConcurrentGeneratorNext]_vars

ConnPoolInit == EngineAtRest /\ LibAtRest

SpecConnPool == ConnPoolInit /\ [][ConnPoolNext]_vars

FramesInit ==
    /\ EngineAtRest
    /\ CheckpointStoreAtRest /\ GeneratorAtRest /\ ConnPoolAtRest
    /\ WizardAtRest
    /\ HNResumeAtRest
    /\ SelectQueryAtRest
    /\ SchemaCheckAtRest
    /\ ConnectingAtRest /\ ValidatorAtRest
    /\ tb_config \in MappingConfigs
    /\ tb_raising \in RaisingChoices
    /\ tb_chunk = <<>>
    /\ tb_out = <<>>
    /\ tb_pc = "query"

SpecTransformBatch == FramesInit /\ [][FramesNext]_vars

ConnectingInit ==
    /\ EngineAtRest
    /\ CheckpointStoreAtRest /\ GeneratorAtRest /\ ConnPoolAtRest
    /\ WizardAtRest
    /\ HNResumeAtRest
    /\ SelectQueryAtRest
    /\ SchemaCheckAtRest
    /\ FramesAtRest /\ ValidatorAtRest
    /\ cn_src \in Profiles \cup {NoProfile}
    /\ cn_tgt \in Profiles \cup {NoProfile}
    /\ cn_charset \in SessionCharsets
    /\ cn_src_engine = NoEngine
    /\ cn_tgt_engine = NoEngine
    /\ cn_pc = "connect"

SpecConnecting == ConnectingInit /\ [][ConnectingNext]_vars

ValidatorInit ==
    /\ EngineAtRest
    /\ CheckpointStoreAtRest /\ GeneratorAtRest /\ ConnPoolAtRest
    /\ WizardAtRest
    /\ HNResumeAtRest
    /\ SelectQueryAtRest
    /\ SchemaCheckAtRest
    /\ FramesAtRest /\ ConnectingAtRest
    /\ tid \in ThaiIdInputs
    /\ tid_orig = tid
    /\ tid_pos = 0
    /\ tid_ok = TRUE
    /\ tid_orig_ok = TRUE
    /\ tid_pc = "input"

SpecValidator == ValidatorInit /\ [][ValidatorNext]_vars

SchemaCheckInit ==
    /\ EngineAtRest
    /\ CheckpointStoreAtRest /\ GeneratorAtRest /\ ConnPoolAtRest
    /\ WizardAtRest
    /\ HNResumeAtRest
    /\ SelectQueryAtRest
    /\ FramesAtRest /\ ConnectingAtRest /\ ValidatorAtRest
    /\ sc_in \in SchemaInputs
    /\ sc_log = "none"
    /\ sc_warnings = {}
    /\ sc_pc = "schema"

SpecSchemaCheck == SchemaCheckInit /\ [][SchemaCheckNext]_vars

SelectQueryInit ==
    /\ EngineAtRest
    /\ CheckpointStoreAtRest /\ GeneratorAtRest /\ ConnPoolAtRest
    /\ WizardAtRest
    /\ HNResumeAtRest
    /\ SchemaCheckAtRest
    /\ FramesAtRest /\ ConnectingAtRest /\ ValidatorAtRest
    /\ sq_config \in SelectConfigs
    /\ sq_query = <<>>
    /\ sq_pc = "config"

SpecSelectQuery == SelectQueryInit /\ [][SelectQueryNext]_vars

HNResumeInit == EngineAtRest /\ LibAtRest

SpecHNResume == HNResumeInit /\ [][HNResumeNext]_vars

WizardInit == EngineAtRest /\ LibAtRest

SpecWizard == WizardInit /\ [][WizardNext]_vars

(* ------------------------------ properties ---------------------------- *)

\* Chunks of the source under the batch size of the session.
SourceBatches == 1..NumBatches(source_rows, batch_size)

\* Chunks whose transformation raised in the current execution.
FailedTransforms ==
    { b \in attempted \ inserted :
        ~(b = batch_num /\ (pc = "insert" \/ migration_failed)) }

\* The execution got to the end of its loop and reported success.
RunCompleted == pc = "footer" /\ status = "complete"

\* The writes a full execution from chunk 1 makes: chunk k with the rows
\* fetched up to and including it.
ExpectedWrites(n) ==
    [k \in 1..n |-> [batch |-> k,
                     rows |-> CumulativeRows(k, batch_size, source_rows)]]

\* C1 as stated: when an execution without resume in which no insert
\* failed has ended with success, its checkpoint writes are those of chunks
\* 1..n in order, each with the cumulative number of rows fetched.
CheckpointMonotonicityAsStated ==
    (RunCompleted /\ skip_batches = 0)
        => writes = ExpectedWrites(NumBatches(source_rows, batch_size))

\* Rows of the chunks up to chunk b that the current execution inserted.
InsertedRowsUpTo(b) ==
    UNION {BatchRows(c, batch_size, source_rows) : c \in {d \in inserted : d <= b}}

\* C1 (amended): in an execution without resume in which no insert has
\* failed, the checkpoint writes made so far carry the numbers of the chunks
\* inserted, in increasing order, the rows_processed of each strictly
\* greater than the one before and equal to the rows inserted up to that
\* chunk; if moreover no transformation has failed they are the chunks
\* 1, 2, ... with the rows fetched up to each, and when such an execution
\* ends outside test mode there is one write per chunk of the source.
CheckpointMonotonicity ==
    (pc \in RunPcs /\ skip_batches = 0 /\ ~migration_failed)
        => /\ {writes[k].batch : k \in 1..Len(writes)} =
                 inserted \ (IF pc = "save" THEN {batch_num} ELSE {})
           /\ \A k \in 1..Len(writes) :
                 /\ writes[k].rows = Cardinality(InsertedRowsUpTo(writes[k].batch))
                 /\ k > 1 => /\ writes[k].batch > writes[k - 1].batch
                             /\ writes[k].rows > writes[k - 1].rows
           /\ FailedTransforms = {}
                 => /\ writes = ExpectedWrites(Len(writes))
                    /\ (RunCompleted /\ ~migration_test_sample)
                          => Len(writes) = NumBatches(source_rows, batch_size)

\* C1 witness: a full execution over 3 rows in chunks of 2 (the last chunk
\* is short) has written chunk 1 with 2 rows and chunk 2 with 3.
CheckpointMonotonicityWitness ==
    /\ RunCompleted
    /\ skip_batches = 0
    /\ ~migration_test_sample
    /\ FailedTransforms = {}
    /\ writes = <<[batch |-> 1, rows |-> 2], [batch |-> 2, rows |-> 3]>>

RECURSIVE SumCopies(_, _)
SumCopies(B, S) ==
    IF S = {} THEN 0
    ELSE LET e == CHOOSE x \in S : TRUE
         IN CopiesIn(e, B) + SumCopies(B, S \ {e})

\* Number of rows of the target that came from source row r.
RowCopies(r) == SumCopies(target, {e \in BagToSet(target) : e.id = r})

\* The source rows of the chunks the current execution inserted.
InsertedRows ==
    UNION {BatchRows(b, batch_size, source_rows) : b \in inserted}

\* The insert of chunk batch_num has just failed and the loop was left.
InsertJustFailed == pc = "finish" /\ migration_failed

\* C2 as stated: when the insert of chunk k has failed, the checkpoint is at
\* k-1, every chunk up to the checkpoint is in the target and no chunk
\* after it is.
BatchFailureIsolationAsStated ==
    InsertJustFailed
        => /\ checkpoint.exists
           /\ checkpoint.last_batch = batch_num - 1
           /\ \A b \in SourceBatches :
                 \A r \in BatchRows(b, batch_size, source_rows) :
                     IF b <= checkpoint.last_batch
                     THEN RowCopies(r) >= 1
                     ELSE RowCopies(r) = 0

\* What the insert-failure handler does guarantee (not C2): when the insert
\* of chunk k has failed, the execution has
\* stopped with the checkpoint at k-1 and the rows counted so far; it has
\* inserted no chunk numbered k or more, and of the chunks up to the
\* checkpoint exactly those above its skip count whose transformation did
\* not fail; if it emptied the target in pre-flight, the target holds the
\* rows of exactly those chunks, once each.
FailureHandlerGuarantee ==
    InsertJustFailed
        => /\ checkpoint = CheckpointData(batch_num - 1, total_rows_processed)
           /\ writes[Len(writes)] =
                 [batch |-> batch_num - 1, rows |-> total_rows_processed]
           /\ inserted = ((skip_batches + 1)..(batch_num - 1)) \ FailedTransforms
           /\ (cleaned /\ pressed # "emergency")
                 => target = SetToBag(transform_batch(InsertedRows,
                                                      migration_config))

\* Such a failure: the insert of chunk 3 failed after chunk 1 was dropped by
\* a transformation error and chunk 2 was inserted into the emptied target.
BatchFailureIsolationCase ==
    /\ InsertJustFailed
    /\ cleaned
    /\ batch_num = 3
    /\ FailedTransforms = {1}
    /\ inserted = {2}
    /\ checkpoint.last_batch = 2

\* C3 (as stated): when an execution that resumed from the checkpoint of an
\* interrupted execution into an initially empty target ends with success,
\* the target holds every source row exactly once, as after a single
\* uninterrupted execution.
IdempotentResumeAsStated ==
    (RunCompleted /\ lineage.kind = "resumed" /\ skip_batches > 0
        /\ ~cleaned /\ ~migration_test_sample)
        => \A r \in 1..source_rows : RowCopies(r) = 1

\* C4: an execution the operator starts with resume ticked while a checkpoint
\* with last_batch = L exists skips L chunks; in every execution the chunks
\* up to the skip count are fetched and counted in the rows-processed total
\* but neither transformed nor inserted, and the first chunk handed to the
\* transformation is the one after them.
ResumeSkip ==
    /\ (pc = "connect" /\ trigger = "operator" /\ resume_from_checkpoint
           /\ checkpoint.exists)
          => skip_batches = checkpoint.last_batch
    /\ pc \in RunPcs
          => /\ \A b \in attempted \cup inserted : b > skip_batches
             /\ attempted # {} => skip_batches + 1 \in attempted
             /\ total_rows_processed =
                   CumulativeRows(Min(batch_num, skip_batches), batch_size,
                                  source_rows)
                   + Cardinality(InsertedRows)

\* C4 witness: resumed by the operator from a checkpoint at chunk 2, the
\* execution has skipped chunks 1 and 2 and inserted chunk 3.
ResumeSkipWitness ==
    /\ trigger = "operator" /\ resume_from_checkpoint
    /\ skip_batches = 2 /\ batch_num = 3
    /\ attempted = {3} /\ inserted = {3}
    /\ total_rows_processed = 3

\* C5 (as stated): an execution that has inserted a chunk and has ended
\* before the last chunk of the source was fetched (insert failure, test-mode
\* stop, critical error) leaves a checkpoint in place.
CheckpointClearedOnlyOnFullCompletion ==
    (pc = "footer" /\ inserted # {}
        /\ batch_num < NumBatches(source_rows, batch_size))
        => checkpoint.exists

\* C9 (as stated): with a configuration that names a transformer outside the
\* registry no row ever reaches the target.
UnknownTransformerFailsFast ==
    ~KnownTransformers(config) => target = EmptyBag

\* C6 (as stated): in test mode an execution hands at most one chunk to the
\* transformation, whether or not that transformation fails.
TestModeOneBatch ==
    (pc \in RunPcs /\ migration_test_sample) => Cardinality(attempted) <= 1

\* C7 (as stated): a re-execution of the execution step that the operator
\* did not ask for (a re-render, a click on the emergency-truncate or the
\* log-download control) fetches no chunk and does not empty the target.
NoAutoRetry ==
    trigger = "rerender" => (batch_num = 0 /\ ~cleaned)

\* The batch loop of an execution is under way.
ExecutionActive ==
    pc \in {"connect", "preflight", "schema", "fetch", "transform", "insert",
            "save"}

\* The page script is executed again at step 4 by something other than the
\* "Start New Migration" button.
Reentry ==
    Rerender \/ ClickDownloadLog \/ ClickEmergencyTruncate \/ InterruptByRerun

\* C8: an execution under way has the migration_running flag set and an
\* execution starts only from a state where the flag is clear, so no two
\* are under way in one session; entering the execution step while the flag
\* is set starts nothing, touches neither target nor checkpoint and leaves
\* the "already running" notice; the flag is cleared only by the end of the
\* execution (success, insert failure, critical error), by the
\* "Start New Migration" button or with the session itself.
ReentrancyGuard ==
    /\ [](ExecutionActive => migration_running)
    /\ [][/\ runs' # runs => (~migration_running /\ migration_running')
          /\ (migration_running /\ Reentry)
                => /\ status' = "already_running"
                   /\ pc' = "idle"
                   /\ runs' = runs
                   /\ migration_running'
                   /\ UNCHANGED world
          /\ (migration_running /\ ~migration_running')
                => \/ pc \in RunPcs
                         /\ status' \in {"complete", "failed", "critical"}
                   \/ ClickStartNewMigration
                   \/ NewSession]_vars

\* C8 witness: the execution step was entered while the flag was set and the
\* attempt was turned away.
ReentrancyGuardWitness ==
    /\ status = "already_running" /\ migration_running
    /\ pc = "idle" /\ migration_step = 4 /\ runs = 1

\* C10: an execution whose session does not ask for resume skips nothing:
\* its skip count is 0 and every chunk fetched so far, from chunk 1 on, was
\* handed to the transformation, whatever checkpoint is stored.
NoResumeStartsFromZero ==
    (pc \in RunPcs /\ ~resume_from_checkpoint)
        => /\ skip_batches = 0
           /\ attempted = 1..(batch_num - (IF pc = "transform" THEN 1 ELSE 0))
           /\ inserted \subseteq attempted

\* C10 witness: started by the operator without resume while a checkpoint at
\* chunk 1 or later is stored, the execution has transformed and inserted
\* chunk 1.
NoResumeStartsFromZeroWitness ==
    /\ pc = "save" /\ trigger = "operator" /\ ~resume_from_checkpoint
    /\ checkpoint.exists /\ checkpoint.last_batch >= 1
    /\ skip_batches = 0 /\ batch_num = 1 /\ inserted = {1}

\* The configurations the schema mapper stored.
GeneratedConfigs == {generate_json_config(n) : n \in ConfigNames}

\* C11 (as stated, for configurations stored by the schema mapper): after
\* the engine saved or cleared the checkpoint of one configuration, load
\* returns for every configuration with another name what it returned before.
OneCheckpointPerName ==
    (last_op.done /\ last_op.cfg \in GeneratedConfigs)
        => \A cfg \in GeneratedConfigs :
              OwnName(cfg) # OwnName(last_op.cfg)
                 => load_checkpoint(checkpoint_files, EngineConfigName(cfg))
                       = load_checkpoint(last_op.before, EngineConfigName(cfg))

\* The sum of the first k entries of a sequence of numbers.
RECURSIVE SumFirst(_, _)
SumFirst(seq, k) == IF k = 0 THEN 0 ELSE SumFirst(seq, k - 1) + seq[k]

\* The decimal digits of an identifier read as a number.
RECURSIVE DigitsValue(_)
DigitsValue(str) ==
    IF str = <<>> THEN 0
    ELSE 10 * DigitsValue(SubSeq(str, 1, Len(str) - 1))
         + (CHOOSE d \in 0..9 : DigitChar[d + 1] = str[Len(str)])

HNValue(id) == DigitsValue(SubSeq(id, 3, Len(id)))

\* C12: in a process with one session, each GENERATE_HN call on n rows
\* advances the counter by n and returns the identifiers of counter+1 ..
\* counter+n, "HN" and nine zero-padded digits each; the identifiers issued
\* since a reset are pairwise different and increase in row order, and they
\* are determined by the value of the reset and the row counts alone.
SequenceGenerator ==
    /\ hn_counter = hn_start + SumFirst(hn_batches, Len(hn_batches))
    /\ Len(hn_issued) = hn_counter - hn_start
    /\ \A i \in 1..Len(hn_issued) :
          /\ Len(hn_issued[i]) = 11
          /\ SubSeq(hn_issued[i], 1, 2) = <<"H", "N">>
          /\ HNValue(hn_issued[i]) = hn_start + i
    /\ \A i, j \in 1..Len(hn_issued) :
          i < j => /\ hn_issued[i] # hn_issued[j]
                   /\ HNValue(hn_issued[i]) < HNValue(hn_issued[j])

\* C12 witness: after a reset to 1, batches of 2, 0 and 1 rows received the
\* identifiers of 2, 3 and 4.
SequenceGeneratorWitness ==
    /\ hn_start = 1
    /\ hn_batches = <<2, 0, 1>>
    /\ hn_counter = 4
    /\ hn_issued = <<FormatHN(2), FormatHN(3), FormatHN(4)>>
    /\ hn_issued[1] = <<"H", "N", "0", "0", "0", "0", "0", "0", "0", "0", "2">>

\* C13 (as stated): when the calls of two sessions have all returned, no
\* identifier was issued twice and the counter stands advanced by the sum of
\* the row counts of the calls.
GeneratorMutualExclusion ==
    (\A t \in SessionThreads : hn_thread[t].pc = "out")
        => /\ \A i, j \in 1..Len(hn_issued) :
                 i # j => hn_issued[i] # hn_issued[j]
           /\ hn_counter = hn_start + SumFirst(hn_batches, Len(hn_batches))

\* The key of the last get_connection call.
LastKey ==
    _generate_key(last_get.ds[1], last_get.ds[2], last_get.ds[3],
                  last_get.ds[4], last_get.ds[5])

\* C14: a get for a key in the pool returns the cached connection exactly
\* when that connection answered the probe; when it did not, the stale entry
\* is gone and a get that succeeds returns a newly opened connection; after
\* a get that succeeds the pool maps the key to the connection returned.
PoolGet ==
    last_get.done
        => /\ last_get.had_entry
                => /\ (last_get.ok /\ last_get.returned = last_get.cached)
                          <=> last_get.was_live
                   /\ ~last_get.was_live
                          => /\ \A k \in DOMAIN connections :
                                   connections[k] # last_get.cached
                             /\ last_get.ok
                                   => /\ last_get.returned.id = created
                                      /\ last_get.returned # last_get.cached
           /\ last_get.ok
                => /\ LastKey \in DOMAIN connections
                   /\ connections[LastKey] = last_get.returned
           /\ \A k1, k2 \in DOMAIN connections :
                 connections[k1] = connections[k2] => k1 = k2

\* C14 witness: the cached connection had died; the get dropped it and
\* returned a second connection, now the pool's entry for the key.
PoolGetWitness ==
    /\ last_get.done /\ last_get.had_entry /\ ~last_get.was_live /\ last_get.ok
    /\ last_get.cached.id = 1 /\ last_get.returned.id = 2
    /\ connections[LastKey].id = 2

\* C15: the pool holds at most one entry per (db_type, host, port, db_name,
\* user), whatever passwords were given; a get whose datasource has a live
\* entry opened with another password returns that cached connection and
\* adds no entry.
PoolKeyExcludesPassword ==
    /\ \A k1, k2 \in DOMAIN connections :
          connections[k1].ds = connections[k2].ds => k1 = k2
    /\ \A k \in DOMAIN connections :
          k = _generate_key(connections[k].ds[1], connections[k].ds[2],
                            connections[k].ds[3], connections[k].ds[4],
                            connections[k].ds[5])
    /\ (last_get.done /\ last_get.was_live)
          => /\ last_get.ok
             /\ last_get.returned = last_get.cached
             /\ Cardinality(DOMAIN connections) = last_get.entries_before

\* C15 witness: a connection opened with the password "secret" is returned
\* to a get that gives the password "rotated".
PoolKeyExcludesPasswordWitness ==
    /\ last_get.done /\ last_get.ok /\ last_get.was_live
    /\ last_get.password = "rotated"
    /\ last_get.returned.password = "secret"
    /\ last_get.returned = last_get.cached
    /\ Cardinality(DOMAIN connections) = 1

\* The mappings of the transformed configuration that are ignored, and kept.
IgnoredMappings == {i \in DOMAIN tb_config.mappings : tb_config.mappings[i].ignore}

KeptMappings == DOMAIN tb_config.mappings \ IgnoredMappings

\* C16: when exactly one of the N mappings is ignored, the transformed batch
\* has exactly N-1 columns, none of them is named after the ignored mapping's
\* target or source, and the columns carry the lower-cased target names of
\* the kept mappings.
IgnoreRenameContract ==
    (tb_pc = "transformed" /\ Cardinality(IgnoredMappings) = 1) =>
        /\ Len(tb_out) = Len(tb_config.mappings) - 1
        /\ \A i \in IgnoredMappings :
               ColumnLabels(tb_out) \cap {tb_config.mappings[i].target,
                                          tb_config.mappings[i].source} = {}
        /\ ColumnLabels(tb_out) =
               {str_lower(tb_config.mappings[i].target) : i \in KeptMappings}

\* Every mapping is kept, and no target is, ignoring case, the target or the
\* source of the other mapping.
SeparateColumns ==
    /\ IgnoredMappings = {}
    /\ \A i, j \in DOMAIN tb_config.mappings :
           i # j => str_lower(tb_config.mappings[i].target)
                        \notin {str_lower(tb_config.mappings[j].target),
                                str_lower(tb_config.mappings[j].source)}

\* The chain of mapping i applied in list order to the raw value, a raising
\* step being the identity.
ComposedValue(i) ==
    ChainFrom(CellValue(tb_config.mappings[i].source, 1),
              tb_config.mappings[i].transformers, 1,
              {k \in DOMAIN tb_config.mappings[i].transformers :
                  <<i, k>> \in tb_raising})

\* C17: the value written to the target column of a kept mapping with chain
\* [t1..tn] is tn(..t1(raw)..), the steps applied in list order and a raising
\* step being the identity on its input; the other columns are processed too.
ChainComposition ==
    (tb_pc = "transformed" /\ SeparateColumns) =>
        \A i \in KeptMappings :
            /\ str_lower(tb_config.mappings[i].target) \in ColumnLabels(tb_out)
            /\ Column(tb_out, str_lower(tb_config.mappings[i].target))
                   = ComposedValue(i)

\* C18: a stop requested while batch k is in flight leaves batch k's insert
\* in the target, starts no further batch, and leaves the checkpoint at
\* batch k, the last completed one.
CooperativeCancellation ==
    [][(batch_num \in inserted /\ InterruptByRerun)
          => /\ target' = target
             /\ pc' \notin RunPcs
             /\ checkpoint'.exists
             /\ checkpoint'.last_batch = batch_num]_vars

\* C19: with both datasource profiles retrievable and of supported dialects,
\* CONNECTING does not end in a critical error; it reaches the pre-flight
\* step holding an engine of the source dialect and one of the target's.
ConnectingProceeds ==
    (cn_src \in Profiles /\ cn_tgt \in Profiles) =>
        /\ cn_pc # "critical"
        /\ cn_pc = "preflight" =>
               /\ cn_src_engine.dialect = cn_src.db_type
               /\ cn_tgt_engine.dialect = cn_tgt.db_type

\* The weighted sum of the first twelve digits, 13 down to 2 being the
\* weights, modulo 11.
RECURSIVE ThaiIdSum(_, _)
ThaiIdSum(id, i) ==
    IF i > 12 THEN 0
    ELSE (14 - i) * DigitsValue(<<id[i]>>) + ThaiIdSum(id, i + 1)

ThaiIdChecksum(id) == ThaiIdSum(id, 1) % 11

ThaiIdCheckDigit(id) == (11 - ThaiIdChecksum(id)) % 10

\* C20 (as stated): a 13-digit string whose 13th digit is
\* (11 - (sum of (13-i)*digit_i, i = 0..11) mod 11) mod 10 validates true,
\* and a valid string with any single digit changed validates false.
ThaiIdSingleDigitAsStated ==
    /\ (tid_pc = "validated" /\ DigitsValue(<<tid[13]>>) = ThaiIdCheckDigit(tid))
          => tid_ok
    /\ tid_pc = "revalidated" => ~tid_ok

\* C20: a 13-digit string validates true exactly when its 13th digit is
\* (11 - (sum of (13-i)*digit_i, i = 0..11) mod 11) mod 10; a valid string
\* with a single digit changed validates false, except when the third digit
\* was changed (its weight 11 is 0 modulo 11) or when the change moved the
\* weighted sum modulo 11 between 0 and 10 (both give the check digit 1):
\* then it still validates true.
ThaiIdSingleDigit ==
    /\ tid_pc \in {"validated", "revalidated"}
          => (tid_ok <=> DigitsValue(<<tid[13]>>) = ThaiIdCheckDigit(tid))
    /\ tid_pc = "revalidated"
          => (tid_ok <=>
                 /\ tid_pos <= 12
                 /\ \/ tid_pos = 3
                    \/ {ThaiIdChecksum(tid_orig), ThaiIdChecksum(tid)} = {0, 10})

ThaiIdSingleDigitWitness ==
    /\ tid_pc = "revalidated"
    /\ tid_orig_ok
    /\ tid_pos = 1
    /\ ~tid_ok

\* The execution is past its pre-flight truncate and has not ended.
PastPreflight == pc \in {"schema", "fetch", "transform", "insert", "save", "finish"}

\* The pre-flight of the execution sent TRUNCATE and DELETE and both raised.
BothCleaningsFailed ==
    /\ pc = "footer"
    /\ status = "critical"
    /\ preflight_sql = <<"TRUNCATE", "DELETE">>
    /\ ~cleaned

\* C21: an execution clears the target before its first batch exactly when
\* the truncate flag is set; it sends TRUNCATE first and DELETE only after
\* TRUNCATE raised; when both raise it ends in the critical error without
\* having fetched, transformed or inserted a batch or written a checkpoint.
PreflightTruncate ==
    /\ PastPreflight => (cleaned <=> truncate_target)
    /\ PastPreflight => (preflight_sql # <<>> <=> truncate_target)
    /\ preflight_sql \in {<<>>, <<"TRUNCATE">>, <<"TRUNCATE", "DELETE">>}
    /\ BothCleaningsFailed =>
          /\ batch_num = 0
          /\ attempted = {}
          /\ inserted = {}
          /\ writes = <<>>
          /\ ~migration_running

PreflightTruncateWitness ==
    /\ BothCleaningsFailed
    /\ truncate_target
    /\ target # EmptyBag

\* C22: a chunk whose transformation raised is not inserted and no checkpoint
\* is written for it, while the chunks the execution inserts are
\* checkpointed under their own numbers.
TransformFailureSkipsBatch ==
    /\ \A b \in FailedTransforms :
          /\ b \notin inserted
          /\ \A i \in DOMAIN writes : writes[i].batch # b
    /\ \A b \in inserted :
          (b = batch_num /\ pc = "save")
              \/ \E i \in DOMAIN writes : writes[i].batch = b

\* The inspection of the pre-check raised.
InspectionRaised == sc_in.inspect = "raises" \/ sc_in.get_columns = "raises"

\* C23: the schema pre-check never ends the execution: a failure of the
\* inspection is only logged, a truncation risk of a kept mapping (target
\* limit below the source's, or source limit unknown) is only warned about,
\* and either way the execution goes on to build the SELECT.
SchemaCheckNonFatal ==
    /\ sc_pc \in {"schema", "compare", "query"}
    /\ sc_pc = "compare" => ~InspectionRaised
    /\ sc_pc = "query" =>
          /\ sc_log = "skipped" <=> InspectionRaised
          /\ sc_log = "warned" <=>
                /\ ~InspectionRaised /\ ~sc_in.ignore /\ sc_in.known
                /\ sc_in.tgt_len # NoLength
                /\ sc_in.src_len = NoLength \/ sc_in.tgt_len < sc_in.src_len
          /\ sc_log \in {"skipped", "warned", "passed"}

SchemaCheckNonFatalWitness ==
    /\ sc_pc = "query"
    /\ InspectionRaised
    /\ sc_log = "skipped"

\* The mappings of the configuration queried (none without a mappings key).
QueriedMappings ==
    IF "mappings" \in DOMAIN sq_config THEN sq_config.mappings ELSE <<>>

\* The kept mappings that read their source column.
ReadingMappings ==
    {i \in NotIgnored(QueriedMappings) : ~HasGenerateHN(QueriedMappings[i])}

\* The sources of the mappings from i on that are kept and read their column.
RECURSIVE ReadSources(_)
ReadSources(i) ==
    IF i > Len(QueriedMappings) THEN <<>>
    ELSE (IF i \in ReadingMappings THEN <<QueriedMappings[i].source>> ELSE <<>>)
         \o ReadSources(i + 1)

\* C24: the query projects the sources of the mappings that are neither
\* ignored nor self-generating, in mapping order; it is SELECT * when the
\* configuration is empty, has no mappings key or no kept mapping; when every
\* kept mapping is self-generating it projects one column, and that column
\* exists in the source table; a source that only ignored mappings name is
\* never projected.
SelectProjection ==
    sq_pc # "config" =>
        /\ ReadingMappings # {} => sq_query = ReadSources(1)
        /\ NotIgnored(QueriedMappings) = {} => sq_query = Star
        /\ (ReadingMappings = {} /\ NotIgnored(QueriedMappings) # {}) =>
              /\ Len(sq_query) = 1
              /\ \E c \in DOMAIN SourceTableColumns :
                    SourceTableColumns[c] = sq_query[1]
        /\ sq_query # Star =>
              \A i \in DOMAIN QueriedMappings :
                  (/\ QueriedMappings[i].ignore
                   /\ \A j \in NotIgnored(QueriedMappings) :
                         QueriedMappings[j].source # QueriedMappings[i].source)
                     => \A q \in DOMAIN sq_query :
                            sq_query[q] # QueriedMappings[i].source

\* C25: an execution the operator starts with resume ticked and a
\* checkpoint of one batch or more does not send TRUNCATE or DELETE to the
\* target in its pre-flight, whatever the truncate option held before.
ResumeNeverTruncates ==
    (pc \in RunPcs /\ trigger = "operator" /\ skip_batches >= 1)
        => (~cleaned /\ preflight_sql = <<>>)

\* C26: when an execution outside test mode and without resume ends with
\* success reported, checkpoint cleared and migration_completed set, it has
\* inserted every chunk of the source, and the total it reports is the
\* number of rows it inserted.
CompletenessOnSuccess ==
    (RunCompleted /\ ~migration_test_sample /\ skip_batches = 0)
        => /\ migration_completed /\ ~checkpoint.exists
           /\ total_rows_processed = Cardinality(InsertedRows)
           /\ inserted = SourceBatches

\* C27: when an execution started by the operator with resume hands its
\* first chunk to the transformation, the rows it has fetched and skipped
\* are as many as the rows_processed of the checkpoint it resumed from,
\* whatever batch size it runs with.
ResumeSkipsRowsProcessed ==
    (/\ pc = "transform" /\ trigger = "operator" /\ skip_batches >= 1
     /\ attempted = {} /\ writes = <<>> /\ checkpoint.exists)
        => /\ total_rows_processed = checkpoint.rows_processed
           /\ CumulativeRows(skip_batches, batch_size, source_rows)
                  = checkpoint.rows_processed

\* C28: no row inserted by a resumed execution carries an identifier that a
\* row inserted before the checkpoint carries, also when the resume runs
\* in a new process.
HNUniqueAcrossResume ==
    \A x \in hr_target, y \in hr_target :
        (x.run < y.run /\ hr_skip >= 1 /\ x.row # y.row) => x.hn # y.hn

\* C29: whenever no execution is under way in a session (the script is not
\* inside the execution of step 4, whatever way it left it), the
\* migration_running flag is clear.
RunningFlagReleased ==
    pc \notin RunPcs => ~migration_running

\* C30: whenever the wizard is at the review or the execution step, the
\* source and the target profile selected are the ones whose last connection
\* test succeeded; a change of a selected profile leaves the connected flag
\* of that side clear, and so does "Start New Migration" for both sides.
TestedProfilesOnly ==
    /\ [](wz_step \in {3, 4}
            => /\ wz_src_tested = [profile |-> wz_src_profile, ok |-> TRUE]
               /\ wz_tgt_tested = [profile |-> wz_tgt_profile, ok |-> TRUE])
    /\ [][/\ wz_src_profile' # wz_src_profile => ~wz_src_ok'
          /\ wz_tgt_profile' # wz_tgt_profile => ~wz_tgt_ok'
          /\ WzStartNew => (~wz_src_ok' /\ ~wz_tgt_ok')]_vars

====
